---- MODULE Spec2Model ----
(***************************************************************************)
(* A model of the isla IR pre-pass (src/src/ast.rs), of the litmus front   *)
(* end (src/isla-lib/src/litmus.rs), of primitive operations               *)
(* (src/src/primop.rs) and of the ISA configuration (src/src/config.rs).   *)
(*                                                                         *)
(* The module holds several specifications over one set of variables:      *)
(*   SpecIR         insert_primops followed by SharedState::new            *)
(*   SpecTmp        threads calling TmpFile::new, using and dropping files *)
(*   SpecLitmus     Litmus::parse and assemble_instruction, with the       *)
(*                  assembler process and the files they create            *)
(*   SpecAssertion  the final assertion step of Litmus::parse              *)
(*   SpecPrimop     one call of a primop: the macro-generated primops, the *)
(*                  slice family, the assertion primops, op_eq and the     *)
(*                  unimplemented entries of the variadic table            *)
(*   SpecSetSlice   one call of set_slice under an assignment              *)
(*   SpecClz        one call of count_leading_zeros under an assignment    *)
(*   SpecAlign      one call of align_bits under an assignment             *)
(*   SpecConfig     one call of ISAConfig::parse                           *)
(*   SpecSymtab     Symtab::intern and the interning of expressions and    *)
(*                  definitions                                            *)
(*   SpecReinsert   insert_primops run a second time on its own output     *)
(*   SpecShift      one call of a shift primop or of op_set_slice          *)
(*   SpecEqStruct   one call of eq_anything on two structs                 *)
(*   SpecIntArith   one call of an integer arithmetic primop               *)
(*   SpecNeq        one call of op_eq or op_neq                            *)
(*   SpecErrPath    one call of a primop that can return an error          *)
(*   SpecReplicate  one call of replicate_bits, its recursion step by step *)
(* Each specification leaves the variables of the other parts unchanged.   *)
(***************************************************************************)
EXTENDS Integers, Sequences, FiniteSets, TLC

VARIABLES
    defs0,      \* ast.rs: the interned definitions handed to insert_primops
    defs,       \* ast.rs: the definitions array (mutated in place by insert_primops)
    primops,    \* ast.rs: the HashSet<u32> returned by insert_primops
    functions,  \* ast.rs: SharedState.functions
    ipc,        \* position in the IR pipeline: "start", "inserted", "shared", "panic"
    symtab,     \* ast.rs: the Symtab (symbols, table, next)
    tmpDir,     \* file system: does the directory <TMPDIR>/isla exist
    files,      \* file system: the paths that exist as files
    tmpCounter, \* litmus.rs:59 TMP_COUNTER
    handed,     \* history: the paths TmpFile::new has built, in fetch_add order
    tpc,        \* per thread: its position inside or around TmpFile::new
    theld,      \* per thread: the TmpFile it owns (a sequence of at most one path)
    tcalls,     \* per thread: number of TmpFile::new calls it has started
    entry,      \* litmus.rs: the function called: "parse", "assemble_instruction", "none"
    litmus,     \* Litmus::parse: `contents` as the TOML parser presents it
    ppc,        \* Litmus::parse / assemble_instruction: control position
    symbolic_addrs, \* Litmus::parse: symbolic_addrs
    inits,      \* Litmus::parse: inits
    assembled,  \* Litmus::parse: the second `assembled` (name, init, code)
    final_assertion, \* Litmus::parse: final_assertion (a sequence of at most one Prop)
    presult,    \* what Litmus::parse or assemble_instruction returned
    athreads,   \* assemble: threads
    reloc,      \* assemble: reloc
    apc,        \* assemble: control position
    aresult,    \* assemble: the value returned
    objfile,    \* assemble: objfile of line 130 (a sequence of at most one path)
    objfile_reloc,  \* assemble: objfile_reloc
    linker_script,  \* assemble: linker_script
    atmps,      \* history: the paths of the TmpFiles created by this call of assemble
    elf,        \* assemble: the result of Object::parse(&buffer)
    asmproc,    \* the assembler child process: "none", "running", "exited"
    asmout,     \* the path the assembler was given after -o
    asmexit,    \* the assembler's exit status: "none", "success", "failure"
    woutput,    \* litmus.rs:151: the Output wait_with_output returned, bound to `_`
    call,       \* primop.rs / config.rs: the function called and its operands
    model,      \* an assignment of values to the symbolic operands of the call
    solver,     \* primop.rs: the Solver handed to the primop
    frame,      \* primop.rs: the LocalFrame handed to a variadic primop; while
                \* replicate_exp runs, its innermost activation and their number
    ret,        \* the value the call returned
    cpc         \* position of the call: "idle", "ready", "done"

irVars == <<defs0, defs, primops, functions, ipc, symtab>>
fsVars == <<tmpDir, files, tmpCounter, handed>>
tmpVars == <<tpc, theld, tcalls>>

parseVars == <<entry, litmus, ppc, symbolic_addrs, inits, assembled, final_assertion, presult>>
asmVars == <<athreads, reloc, apc, aresult, objfile, objfile_reloc, linker_script, atmps, elf>>
procVars == <<asmproc, asmout, asmexit, woutput>>
litmusVars == <<parseVars, asmVars, procVars>>
primVars == <<call, model, solver, frame, ret, cpc>>

vars == <<irVars, fsVars, tmpVars, litmusVars, primVars>>

(***************************************************************************)
(* Bounds and input universes                                              *)
(***************************************************************************)
MaxDefs == 3
\* Calls of TmpFile::new each thread makes.
MaxTmpCalls == 2

\* Function names (u32 symbols) that definitions may carry.
FnNames == {1, 2}

(***************************************************************************)
(* ast.rs: the IR                                                          *)
(***************************************************************************)
LocId(n) == [tag |-> "Id", id |-> n]
ExpId(n) == [tag |-> "Id", id |-> n]

InstrCall(loc, ext, f, args) == [tag |-> "Call", loc |-> loc, ext |-> ext, f |-> f, args |-> args]
InstrPrimop(loc, f, args) == [tag |-> "Primop", loc |-> loc, f |-> f, args |-> args]
InstrGoto(target) == [tag |-> "Goto", target |-> target]
InstrEnd == [tag |-> "End"]

DefVal(f, arg_tys, ret_ty) == [tag |-> "Val", f |-> f, arg_tys |-> arg_tys, ret_ty |-> ret_ty]
DefFn(f, args, body) == [tag |-> "Fn", f |-> f, args |-> args, body |-> body]
DefLet(bindings, setup) == [tag |-> "Let", bindings |-> bindings, setup |-> setup]
DefRegister(reg, ty) == [tag |-> "Register", reg |-> reg, ty |-> ty]

\* Instruction blocks as intern_instr can produce them: no Primop yet
\* (ast.rs:242-244).
Call1 == InstrCall(LocId(20), FALSE, 1, <<ExpId(10)>>)
Call2 == InstrCall(LocId(21), TRUE, 2, <<>>)

Blocks == { <<Call1, InstrEnd>>, <<InstrGoto(1), Call2, Call1>> }

Signatures == { [arg_tys |-> <<"Lint">>, ret_ty |-> "Unit"],
                [arg_tys |-> <<"Bool", "Lint">>, ret_ty |-> "Bool"] }

ParamLists == { <<10>>, <<10, 11>> }

DefUniverse ==
    { DefVal(f, s.arg_tys, s.ret_ty) : f \in FnNames, s \in Signatures }
    \cup { DefFn(f, a, b) : f \in FnNames, a \in ParamLists, b \in Blocks }
    \cup { DefLet(<<<<30, "Lint">>>>, b) : b \in Blocks }
    \cup { DefRegister(40, "Bool") }

SeqsUpTo(S, n) == UNION { [1..k -> S] : k \in 0..n }

(***************************************************************************)
(* ast.rs:128-167 Symtab                                                   *)
(***************************************************************************)
\* ast.rs:134 pub static RETURN.
RETURN == 0

\* intern without the test of the table: every call stores a new symbol.
intern_Unchecked(st, sym) ==
    [symtab |-> [symbols |-> Append(st.symbols, sym),
                 table |-> [x \in DOMAIN st.table \cup {sym} |->
                               IF x = sym THEN st.next ELSE st.table[x]],
                 next |-> st.next + 1],
     n |-> st.next]

\* ast.rs:137-148. The value is the table after the call and the name handed
\* back.  `next` cannot wrap before 2^32 different strings are stored.
intern(st, sym) ==
    IF sym \notin DOMAIN st.table
    THEN [symtab |-> [symbols |-> Append(st.symbols, sym),
                      table |-> [x \in DOMAIN st.table \cup {sym} |->
                                    IF x = sym THEN st.next ELSE st.table[x]],
                      next |-> st.next + 1],
          n |-> st.next]
    ELSE [symtab |-> st, n |-> st.table[sym]]

\* ast.rs:150-152: indexing out of range panics; Vec is 0-based.
to_str_panics(st, n) == n < 0 \/ n >= Len(st.symbols)
to_str(st, n) == st.symbols[n + 1]

Preseeded == <<"return", "current_exception", "have_exception", "zsail_assert",
               "zinternal_vector_init", "zinternal_vector_update">>

RECURSIVE InternAll(_, _, _)
InternAll(st, syms, i) ==
    IF i > Len(syms) THEN st
    ELSE InternAll(intern(st, syms[i]).symtab, syms, i + 1)

\* ast.rs:154-163.
Symtab_new ==
    InternAll([symbols |-> <<>>, table |-> [x \in {} |-> 0], next |-> 0], Preseeded, 1)

\* ast.rs:165-167: expect() panics for a string that was never interned.
lookup_panics(st, sym) == sym \notin DOMAIN st.table
lookup(st, sym) == st.table[sym]

(***************************************************************************)
(* ast.rs:30-127 the IR before and after interning (A = String, A = u32)   *)
(***************************************************************************)
TyLint == [tag |-> "Lint"]
TyBool == [tag |-> "Bool"]
TyUnit == [tag |-> "Unit"]
TyEnum(a) == [tag |-> "Enum", id |-> a]
TyStruct(a) == [tag |-> "Struct", id |-> a]
TyUnion(a) == [tag |-> "Union", id |-> a]
TyVector(ty) == [tag |-> "Vector", ty |-> ty]

LocField(loc, field) == [tag |-> "Field", loc |-> loc, field |-> field]
LocAddr(loc) == [tag |-> "Addr", loc |-> loc]

ExpRef(reg) == [tag |-> "Ref", id |-> reg]
ExpUnit == [tag |-> "Unit"]
ExpStruct(s, fields) == [tag |-> "Struct", id |-> s, fields |-> fields]
ExpKind(ctor, exp) == [tag |-> "Kind", ctor |-> ctor, exp |-> exp]
ExpUnwrap(ctor, exp) == [tag |-> "Unwrap", ctor |-> ctor, exp |-> exp]
ExpField(exp, field) == [tag |-> "Field", exp |-> exp, field |-> field]
ExpCall(op, args) == [tag |-> "Call", op |-> op, args |-> args]

InstrDecl(v, ty) == [tag |-> "Decl", id |-> v, ty |-> ty]
InstrInit(v, ty, exp) == [tag |-> "Init", id |-> v, ty |-> ty, exp |-> exp]
InstrJump(exp, target) == [tag |-> "Jump", exp |-> exp, target |-> target]
InstrCopy(loc, exp) == [tag |-> "Copy", loc |-> loc, exp |-> exp]

DefEnum(e, ctors) == [tag |-> "Enum", id |-> e, ctors |-> ctors]
DefStruct(s, fields) == [tag |-> "Struct", id |-> s, fields |-> fields]
DefUnion(u, ctors) == [tag |-> "Union", id |-> u, ctors |-> ctors]

(***************************************************************************)
(* ast.rs:169-281 interning of the IR                                      *)
(***************************************************************************)
\* The outcome of a step of interning: a panic (a failed lookup, an
\* unreachable!), or a value together with the table after the step.
Panicked == [panic |-> TRUE]
Interned(st, v) == [panic |-> FALSE, symtab |-> st, val |-> v]

\* ast.rs:169-190.
RECURSIVE intern_ty(_, _)
intern_ty(st, ty) ==
    CASE ty.tag \in {"Enum", "Struct", "Union"} ->
            IF lookup_panics(st, ty.id) THEN Panicked
            ELSE Interned(st, [tag |-> ty.tag, id |-> lookup(st, ty.id)])
      [] ty.tag \in {"Vector", "List", "Ref"} ->
            LET r == intern_ty(st, ty.ty)
            IN IF r.panic THEN Panicked ELSE Interned(st, [tag |-> ty.tag, ty |-> r.val])
      [] OTHER -> Interned(st, ty)

\* ast.rs:192-199.
RECURSIVE intern_loc(_, _)
intern_loc(st, loc) ==
    CASE loc.tag = "Id" ->
            IF lookup_panics(st, loc.id) THEN Panicked
            ELSE Interned(st, LocId(lookup(st, loc.id)))
      [] loc.tag = "Field" ->
            LET r == intern_loc(st, loc.loc)
            IN IF r.panic \/ lookup_panics(st, loc.field) THEN Panicked
               ELSE Interned(st, LocField(r.val, lookup(st, loc.field)))
      [] loc.tag = "Addr" ->
            LET r == intern_loc(st, loc.loc)
            IN IF r.panic THEN Panicked ELSE Interned(st, LocAddr(r.val))

\* ast.rs:201-221.  Line 217: an Unwrap is built as a Kind.
RECURSIVE intern_exp(_, _)
intern_exp(st, exp) ==
    CASE exp.tag \in {"Id", "Ref"} ->
            IF lookup_panics(st, exp.id) THEN Panicked
            ELSE Interned(st, [tag |-> exp.tag, id |-> lookup(st, exp.id)])
      [] exp.tag = "Struct" ->
            LET rs == [k \in DOMAIN exp.fields |-> intern_exp(st, exp.fields[k][2])]
            IN IF \/ lookup_panics(st, exp.id)
                  \/ \E k \in DOMAIN exp.fields :
                        lookup_panics(st, exp.fields[k][1]) \/ rs[k].panic
               THEN Panicked
               ELSE Interned(st, ExpStruct(lookup(st, exp.id),
                        [k \in DOMAIN exp.fields |->
                            <<lookup(st, exp.fields[k][1]), rs[k].val>>]))
      [] exp.tag \in {"Kind", "Unwrap"} ->
            LET r == intern_exp(st, exp.exp)
            IN IF lookup_panics(st, exp.ctor) \/ r.panic THEN Panicked
               ELSE Interned(st, ExpKind(lookup(st, exp.ctor), r.val))
      [] exp.tag = "Field" ->
            LET r == intern_exp(st, exp.exp)
            IN IF r.panic \/ lookup_panics(st, exp.field) THEN Panicked
               ELSE Interned(st, ExpField(r.val, lookup(st, exp.field)))
      [] exp.tag = "Call" ->
            LET rs == [k \in DOMAIN exp.args |-> intern_exp(st, exp.args[k])]
            IN IF \E k \in DOMAIN exp.args : rs[k].panic THEN Panicked
               ELSE Interned(st, ExpCall(exp.op, [k \in DOMAIN exp.args |-> rs[k].val]))
      [] OTHER -> Interned(st, exp)

\* ast.rs:223-246.  intern changes the table, so the order of the calls of
\* one arm is the order of the source.
intern_instr(st, instr) ==
    CASE instr.tag = "Decl" ->
            LET v == intern(st, instr.id)
                ty == intern_ty(v.symtab, instr.ty)
            IN IF ty.panic THEN Panicked
               ELSE Interned(v.symtab, InstrDecl(v.n, ty.val))
      [] instr.tag = "Init" ->
            LET exp == intern_exp(st, instr.exp)
                v == intern(st, instr.id)
                ty == intern_ty(v.symtab, instr.ty)
            IN IF exp.panic \/ ty.panic THEN Panicked
               ELSE Interned(v.symtab, InstrInit(v.n, ty.val, exp.val))
      [] instr.tag = "Jump" ->
            LET exp == intern_exp(st, instr.exp)
            IN IF exp.panic THEN Panicked ELSE Interned(st, InstrJump(exp.val, instr.target))
      [] instr.tag = "Copy" ->
            LET loc == intern_loc(st, instr.loc)
                exp == intern_exp(st, instr.exp)
            IN IF loc.panic \/ exp.panic THEN Panicked
               ELSE Interned(st, InstrCopy(loc.val, exp.val))
      [] instr.tag = "Call" ->
            LET loc == intern_loc(st, instr.loc)
                args == [k \in DOMAIN instr.args |-> intern_exp(st, instr.args[k])]
            IN IF \/ loc.panic
                  \/ \E k \in DOMAIN instr.args : args[k].panic
                  \/ lookup_panics(st, instr.f)
               THEN Panicked
               ELSE Interned(st, InstrCall(loc.val, instr.ext, lookup(st, instr.f),
                                           [k \in DOMAIN instr.args |-> args[k].val]))
      [] instr.tag = "Primop" -> Panicked
      [] OTHER -> Interned(st, instr)

\* .iter().map(|instr| self.intern_instr(instr)).collect() of 253 and 271.
RECURSIVE intern_instrs(_, _, _, _)
intern_instrs(st, instrs, i, acc) ==
    IF i > Len(instrs) THEN Interned(st, acc)
    ELSE LET r == intern_instr(st, instrs[i])
         IN IF r.panic THEN Panicked
            ELSE intern_instrs(r.symtab, instrs, i + 1, Append(acc, r.val))

\* .iter().map(|(v, ty)| (self.intern(v), self.intern_ty(ty))).collect() of
\* 252, 258 and 262.
RECURSIVE intern_typed(_, _, _, _)
intern_typed(st, pairs, i, acc) ==
    IF i > Len(pairs) THEN Interned(st, acc)
    ELSE LET v == intern(st, pairs[i][1])
             ty == intern_ty(v.symtab, pairs[i][2])
         IN IF ty.panic THEN Panicked
            ELSE intern_typed(v.symtab, pairs, i + 1, Append(acc, <<v.n, ty.val>>))

\* .iter().map(|x| self.intern(x)).collect() of 256 and 270.
RECURSIVE intern_names(_, _, _, _)
intern_names(st, names, i, acc) ==
    IF i > Len(names) THEN Interned(st, acc)
    ELSE LET v == intern(st, names[i])
         IN intern_names(v.symtab, names, i + 1, Append(acc, v.n))

\* .iter().map(|ty| self.intern_ty(ty)).collect() of 266.
intern_tys(st, tys) ==
    LET rs == [k \in DOMAIN tys |-> intern_ty(st, tys[k])]
    IN IF \E k \in DOMAIN tys : rs[k].panic THEN Panicked
       ELSE Interned(st, [k \in DOMAIN tys |-> rs[k].val])

\* ast.rs:248-275.  Lines 262-265: a Union is built as a Struct.
intern_def(st, def) ==
    CASE def.tag = "Register" ->
            LET reg == intern(st, def.reg)
                ty == intern_ty(reg.symtab, def.ty)
            IN IF ty.panic THEN Panicked
               ELSE Interned(reg.symtab, DefRegister(reg.n, ty.val))
      [] def.tag = "Let" ->
            LET bindings == intern_typed(st, def.bindings, 1, <<>>)
                setup == intern_instrs(bindings.symtab, def.setup, 1, <<>>)
            IN IF bindings.panic THEN Panicked
               ELSE IF setup.panic THEN Panicked
               ELSE Interned(setup.symtab, DefLet(bindings.val, setup.val))
      [] def.tag = "Enum" ->
            LET e == intern(st, def.id)
                ctors == intern_names(e.symtab, def.ctors, 1, <<>>)
            IN Interned(ctors.symtab, DefEnum(e.n, ctors.val))
      [] def.tag = "Struct" ->
            LET fields == intern_typed(st, def.fields, 1, <<>>)
            IN IF fields.panic THEN Panicked
               ELSE LET name == intern(fields.symtab, def.id)
                    IN Interned(name.symtab, DefStruct(name.n, fields.val))
      [] def.tag = "Union" ->
            LET ctors == intern_typed(st, def.ctors, 1, <<>>)
            IN IF ctors.panic THEN Panicked
               ELSE LET name == intern(ctors.symtab, def.id)
                    IN Interned(name.symtab, DefStruct(name.n, ctors.val))
      [] def.tag = "Val" ->
            LET f == intern(st, def.f)
                args == intern_tys(f.symtab, def.arg_tys)
                ret_ty == intern_ty(f.symtab, def.ret_ty)
            IN IF args.panic \/ ret_ty.panic THEN Panicked
               ELSE Interned(f.symtab, DefVal(f.n, args.val, ret_ty.val))
      [] def.tag = "Fn" ->
            LET args == intern_names(st, def.args, 1, <<>>)
                body == intern_instrs(args.symtab, def.body, 1, <<>>)
            IN IF body.panic THEN Panicked
               ELSE IF lookup_panics(body.symtab, def.f) THEN Panicked
               ELSE Interned(body.symtab, DefFn(lookup(body.symtab, def.f), args.val, body.val))

(***************************************************************************)
(* litmus.rs:46-89 mod tmpfile                                             *)
(***************************************************************************)
TmpThreads == {1, 2}

\* process::id() (litmus.rs:68): one value for the life of the process.
Pid == 4242

\* litmus.rs:63-64,68: env::temp_dir() / "isla" / "isla_<pid>_<counter>".
TmpPath_NoCounter(pid, counter) ==
    [root |-> "TMPDIR", sub |-> "isla", prefix |-> "isla", pid |-> pid, counter |-> 0]

TmpPath(pid, counter) ==
    [root |-> "TMPDIR", sub |-> "isla", prefix |-> "isla", pid |-> pid, counter |-> counter]

\* litmus.rs:68 TMP_COUNTER.fetch_add(1, SeqCst): the value read and the
\* value stored, in one atomic step.
FetchAdd(c) == [old |-> c, new |-> c + 1]

\* litmus.rs:63-65: path.is_dir() is evaluated; the caller goes on to
\* create_dir or straight to the counter.
TmpIsDir(t) ==
    /\ tpc[t] = "idle"
    /\ tcalls[t] < MaxTmpCalls
    /\ tcalls' = [tcalls EXCEPT ![t] = @ + 1]
    /\ tpc' = [tpc EXCEPT ![t] = IF tmpDir THEN "fetch" ELSE "create"]
    /\ UNCHANGED <<irVars, primVars, litmusVars, fsVars, theld>>

\* litmus.rs:66: create_dir(&path).expect(..): an existing directory makes
\* create_dir fail and the expect panic.
TmpCreateDir(t) ==
    /\ tpc[t] = "create"
    /\ IF tmpDir
       THEN tpc' = [tpc EXCEPT ![t] = "panic"] /\ UNCHANGED tmpDir
       ELSE tpc' = [tpc EXCEPT ![t] = "fetch"] /\ tmpDir' = TRUE
    /\ UNCHANGED <<irVars, primVars, litmusVars, files, tmpCounter, handed, theld, tcalls>>

\* litmus.rs:68-69: the counter is taken and the TmpFile returned.
TmpFetch(t) ==
    /\ tpc[t] = "fetch"
    /\ LET fa == FetchAdd(tmpCounter)
           path == TmpPath(Pid, fa.old)
       IN /\ tmpCounter' = fa.new
          /\ handed' = Append(handed, path)
          /\ theld' = [theld EXCEPT ![t] = <<path>>]
    /\ tpc' = [tpc EXCEPT ![t] = "own"]
    /\ UNCHANGED <<irVars, primVars, litmusVars, tmpDir, files, tcalls>>

\* The owner has a tool write the file at the path (litmus.rs:132-134,
\* 157, 163-169).
TmpWrite(t) ==
    /\ tpc[t] = "own"
    /\ theld[t][1] \notin files
    /\ files' = files \cup {theld[t][1]}
    /\ UNCHANGED <<irVars, primVars, litmusVars, tmpDir, tmpCounter, handed, tmpVars>>

\* litmus.rs:84-88 Drop: remove_file, its error ignored.
TmpDrop(t) ==
    /\ tpc[t] = "own"
    /\ files' = files \ {theld[t][1]}
    /\ theld' = [theld EXCEPT ![t] = <<>>]
    /\ tpc' = [tpc EXCEPT ![t] = "idle"]
    /\ UNCHANGED <<irVars, primVars, litmusVars, tmpDir, tmpCounter, handed, tcalls>>

FsInit ==
    /\ tmpDir \in BOOLEAN
    /\ files = {}
    /\ tmpCounter = 0
    /\ handed = <<>>

TmpIdle ==
    /\ tpc = [t \in TmpThreads |-> "idle"]
    /\ theld = [t \in TmpThreads |-> <<>>]
    /\ tcalls = [t \in TmpThreads |-> 0]

\* No primop and no configuration parser has been called.
PrimIdle ==
    /\ call = [fn |-> "none", args |-> <<>>]
    /\ model = <<>>
    /\ solver = [fresh |-> 0, lens |-> <<>>, defs |-> <<>>]
    /\ frame = <<>>
    /\ ret = [tag |-> "None"]
    /\ cpc = "idle"

IRIdle ==
    /\ defs0 = <<>>
    /\ defs = <<>>
    /\ primops = {}
    /\ functions = [x \in {} |-> 0]
    /\ ipc = "start"
    /\ symtab = Symtab_new

\* No call of the litmus front end is in progress.
NoLitmus ==
    [toml_ok |-> FALSE, has_name |-> FALSE,
     symbolic |-> [present |-> FALSE, elems |-> <<>>],
     thread |-> [present |-> FALSE, tbl |-> <<>>],
     final |-> [present |-> FALSE, has_assertion |-> FALSE, parses |-> FALSE,
                sexp |-> [tag |-> "List", l |-> <<>>]]]

AsmIdle ==
    /\ athreads = <<>>
    /\ reloc = FALSE
    /\ apc = "idle"
    /\ aresult = [tag |-> "None", msg |-> <<>>, val |-> <<>>]
    /\ objfile = <<>>
    /\ objfile_reloc = <<>>
    /\ linker_script = <<>>
    /\ atmps = {}
    /\ elf = [kind |-> "none", sections |-> <<>>]
    /\ asmproc = "none"
    /\ asmout = <<>>
    /\ asmexit = "none"
    /\ woutput = <<>>

ParseIdle ==
    /\ symbolic_addrs = [x \in {} |-> 0]
    /\ inits = <<>>
    /\ assembled = <<>>
    /\ final_assertion = <<>>
    /\ presult = [tag |-> "None", msg |-> <<>>, val |-> <<>>]

LitmusIdle ==
    /\ entry = "none"
    /\ litmus = NoLitmus
    /\ ppc = "idle"
    /\ ParseIdle
    /\ AsmIdle

InitTmp == FsInit /\ TmpIdle /\ IRIdle /\ LitmusIdle /\ PrimIdle

NextTmp ==
    \E t \in TmpThreads :
        TmpIsDir(t) \/ TmpCreateDir(t) \/ TmpFetch(t) \/ TmpWrite(t) \/ TmpDrop(t)

SpecTmp == InitTmp /\ [][NextTmp]_vars

\* C7: any two calls of TmpFile::new in one process, concurrent ones too,
\* return distinct paths of the form <TMPDIR>/isla/isla_<pid>_<counter>; the
\* counters handed out strictly increase in the order in which the calls
\* take them.
C7_Handed ==
    /\ \A i \in DOMAIN handed :
          \E c \in 0..(tmpCounter - 1) :
             handed[i] = [root |-> "TMPDIR", sub |-> "isla", prefix |-> "isla",
                          pid |-> Pid, counter |-> c]
    /\ \A i, j \in DOMAIN handed :
          i < j => handed[i] # handed[j] /\ handed[i].counter < handed[j].counter
    /\ \A t, u \in TmpThreads :
          t # u /\ theld[t] # <<>> /\ theld[u] # <<>> => theld[t] # theld[u]

\* C7: a step of TmpFile::new itself creates no file.
C7_NewStep ==
    (\E t \in TmpThreads : tpc[t] \in {"idle", "create", "fetch"} /\ tpc'[t] # tpc[t])
        => files' = files

\* C7: distinct, increasing paths, and no file created by TmpFile::new.
C7_DistinctPaths == []C7_Handed /\ [][C7_NewStep]_vars

\* C7 witness: two threads own TmpFiles at once, taken in the opposite
\* order of their thread numbers, after an earlier file was used and dropped.
C7_Witness ==
    /\ Len(handed) >= 3
    /\ theld[1] # <<>> /\ theld[2] # <<>>
    /\ theld[2][1].counter < theld[1][1].counter

(***************************************************************************)
(* ast.rs:315-349 insert_primops                                           *)
(***************************************************************************)
\* First loop (317-327): Val inserts the name, Fn removes it, in array order.
RECURSIVE CollectPrimops(_, _, _)
CollectPrimops(ds, i, acc) ==
    IF i > Len(ds) THEN acc
    ELSE CollectPrimops(ds, i + 1,
            CASE ds[i].tag = "Val" -> acc \cup {ds[i].f}
              [] ds[i].tag = "Fn"  -> acc \ {ds[i].f}
              [] OTHER             -> acc)

\* The closure of 336-341 made to swap: a Call to a primop becomes a Primop
\* and a Primop becomes a Call again.
RewriteInstr_Swap(instr, P) ==
    CASE instr.tag = "Call" /\ instr.f \in P ->
            InstrPrimop(instr.loc, instr.f, instr.args)
      [] instr.tag = "Primop" ->
            InstrCall(instr.loc, FALSE, instr.f, instr.args)
      [] OTHER -> instr

\* The closure of 336-341.
RewriteInstr(instr, P) ==
    IF instr.tag = "Call" /\ instr.f \in P
    THEN InstrPrimop(instr.loc, instr.f, instr.args)
    ELSE instr

\* Second loop body (329-346): only Def::Fn is rebuilt.
RewriteDef(def, P) ==
    IF def.tag = "Fn"
    THEN DefFn(def.f, def.args, [k \in DOMAIN def.body |-> RewriteInstr(def.body[k], P)])
    ELSE def

InsertPrimops ==
    /\ ipc = "start"
    /\ LET P == CollectPrimops(defs, 1, {})
       IN /\ primops' = P
          /\ defs' = [i \in DOMAIN defs |-> RewriteDef(defs[i], P)]
    /\ ipc' = "inserted"
    /\ UNCHANGED <<defs0, functions, symtab, fsVars, tmpVars, litmusVars, primVars>>

(***************************************************************************)
(* ast.rs:290-312 SharedState::new                                         *)
(***************************************************************************)
Zip(args, tys) == [k \in DOMAIN args |-> <<args[k], tys[k]>>]

\* SharedStateStep with the missing-signature case skipped instead of
\* panicking (a plausible slip in 299-300).
SharedStateStep_SkipMissingVal(st, def) ==
    CASE st.panic -> st
      [] def.tag = "Val" ->
            [st EXCEPT !.vals = (def.f :> [arg_tys |-> def.arg_tys, ret_ty |-> def.ret_ty]) @@ @]
      [] def.tag = "Fn" ->
            IF def.f \notin DOMAIN st.vals THEN st
            ELSE IF Len(st.vals[def.f].arg_tys) # Len(def.args) THEN [st EXCEPT !.panic = TRUE]
            ELSE [st EXCEPT !.functions =
                    (def.f :> [params |-> Zip(def.args, st.vals[def.f].arg_tys),
                               ret_ty |-> st.vals[def.f].ret_ty,
                               body   |-> def.body]) @@ @]
      [] OTHER -> st

\* One iteration of the loop 294-309 on the accumulator
\* [vals, functions, panic].
SharedStateStep(st, def) ==
    CASE st.panic -> st
      [] def.tag = "Val" ->
            [st EXCEPT !.vals = (def.f :> [arg_tys |-> def.arg_tys, ret_ty |-> def.ret_ty]) @@ @]
      [] def.tag = "Fn" ->
            IF def.f \notin DOMAIN st.vals THEN [st EXCEPT !.panic = TRUE]
            ELSE IF Len(st.vals[def.f].arg_tys) # Len(def.args) THEN [st EXCEPT !.panic = TRUE]
            ELSE [st EXCEPT !.functions =
                    (def.f :> [params |-> Zip(def.args, st.vals[def.f].arg_tys),
                               ret_ty |-> st.vals[def.f].ret_ty,
                               body   |-> def.body]) @@ @]
      [] OTHER -> st

RECURSIVE SharedStateLoop(_, _, _)
SharedStateLoop(ds, i, st) ==
    IF i > Len(ds) THEN st ELSE SharedStateLoop(ds, i + 1, SharedStateStep(st, ds[i]))

NoMap == [x \in {} |-> 0]

SharedStateNew ==
    /\ ipc = "inserted"
    /\ LET st == SharedStateLoop(defs, 1, [vals |-> NoMap, functions |-> NoMap, panic |-> FALSE])
       IN IF st.panic
          THEN ipc' = "panic" /\ UNCHANGED functions
          ELSE ipc' = "shared" /\ functions' = st.functions
    /\ UNCHANGED <<defs0, defs, primops, symtab, fsVars, tmpVars, litmusVars, primVars>>

(***************************************************************************)
(* Specification of the IR pipeline                                        *)
(***************************************************************************)
InitIR ==
    /\ defs0 \in SeqsUpTo(DefUniverse, MaxDefs)
    /\ defs = defs0
    /\ primops = {}
    /\ functions = NoMap
    /\ ipc = "start"
    /\ symtab = Symtab_new
    /\ FsInit /\ tmpDir
    /\ TmpIdle
    /\ LitmusIdle
    /\ PrimIdle

NextIR == InsertPrimops \/ SharedStateNew

SpecIR == InitIR /\ [][NextIR]_vars

(***************************************************************************)
(* Claims about the IR pipeline                                            *)
(***************************************************************************)
HasVal(ds, f) == \E i \in DOMAIN ds : ds[i].tag = "Val" /\ ds[i].f = f
HasFn(ds, f) == \E i \in DOMAIN ds : ds[i].tag = "Fn" /\ ds[i].f = f

\* The instruction block a definition carries: a function body or the setup
\* block of a let-binding.
BlockOf(def) ==
    CASE def.tag = "Fn"  -> def.body
      [] def.tag = "Let" -> def.setup
      [] OTHER           -> <<>>

\* C1: after insert_primops returns the primop set P, no function body and
\* no let-binding setup block contains a Call whose target is in P: each such
\* call has become a Primop with the same location, target and arguments,
\* and every other instruction is unchanged.
C1_NoCallToPrimopRemains ==
    ipc # "start" =>
        \A i \in DOMAIN defs :
            /\ Len(BlockOf(defs[i])) = Len(BlockOf(defs0[i]))
            /\ \A k \in DOMAIN BlockOf(defs[i]) :
                  LET old == BlockOf(defs0[i])[k]
                      new == BlockOf(defs[i])[k]
                  IN /\ ~(new.tag = "Call" /\ new.f \in primops)
                     /\ IF old.tag = "Call" /\ old.f \in primops
                        THEN new = InstrPrimop(old.loc, old.f, old.args)
                        ELSE new = old

\* C2: the set insert_primops returns is exactly the set of names with a Val
\* signature and no Fn body anywhere in defs, whatever the order of the
\* definitions.
C2_PrimopsAreValWithoutFn ==
    ipc # "start" =>
        primops = { f \in FnNames : HasVal(defs0, f) /\ ~HasFn(defs0, f) }

\* C3: when SharedState::new returns, `functions` has an entry exactly for
\* the names that have both a Val and a Fn definition; the entry pairs the
\* k-th parameter name with the k-th signature type and carries the
\* signature's return type and the function's body.
C3_FunctionsPairValWithFn ==
    ipc = "shared" =>
        /\ DOMAIN functions = { f \in FnNames : HasVal(defs, f) /\ HasFn(defs, f) }
        /\ \A f \in DOMAIN functions :
              \E i, j \in DOMAIN defs :
                 /\ i < j
                 /\ defs[i].tag = "Val" /\ defs[i].f = f
                 /\ defs[j].tag = "Fn" /\ defs[j].f = f
                 /\ Len(defs[i].arg_tys) = Len(defs[j].args)
                 /\ Len(functions[f].params) = Len(defs[j].args)
                 /\ \A k \in DOMAIN defs[j].args :
                       functions[f].params[k] = <<defs[j].args[k], defs[i].arg_tys[k]>>
                 /\ functions[f].ret_ty = defs[i].ret_ty
                 /\ functions[f].body = defs[j].body

\* C3 witness: SharedState::new has returned a function with two typed
\* parameters next to a signature-only name.
C3_Witness ==
    /\ ipc = "shared"
    /\ \E f \in DOMAIN functions : Len(functions[f].params) = 2
    /\ \E g \in FnNames : HasVal(defs, g) /\ ~HasFn(defs, g)

(***************************************************************************)
(* litmus.rs: values shared by the litmus front end                        *)
(***************************************************************************)
\* Result<T, String>, with the panic of a callee as a third outcome.
Ok(v) == [tag |-> "Ok", msg |-> <<>>, val |-> v]
Err(m) == [tag |-> "Err", msg |-> m, val |-> <<>>]
Panic(m) == [tag |-> "Panic", msg |-> m, val |-> <<>>]
NoResult == [tag |-> "None", msg |-> <<>>, val |-> <<>>]

\* toml::Value as Litmus::parse looks at it: a value is either of the type
\* an accessor (as_str, as_array, as_table) asks for, or it is not.
TomlStr(x) == [is_str |-> TRUE, s |-> x]
TomlOther == [is_str |-> FALSE, s |-> ""]

\* The arguments `isa` and `symtab` of Litmus::parse (litmus.rs:343).
\* config.rs:415,417
SymbolicAddrBase == 1048576
SymbolicAddrStride == 8
\* config.rs:423 register_renames
RegisterRenames == ("R1" :> 5)
\* zencode::encode and Symtab::get (used at litmus.rs:229,277)
ZEncode(reg) == <<"z", reg>>
SymtabGet(sym) ==
    CASE sym = <<"z", "X0">> -> <<1>>
      [] sym = <<"z", "X1">> -> <<2>>
      [] OTHER -> <<>>

\* litmus.rs:227-230 and 275-278: the rename map first, then the symbol
\* table on the encoded name. The result is an Option: <<>> or <<id>>.
ResolveRegister(reg) ==
    IF reg \in DOMAIN RegisterRenames
    THEN <<RegisterRenames[reg]>>
    ELSE SymtabGet(ZEncode(reg))

(***************************************************************************)
(* litmus.rs:353-366 symbolic addresses                                    *)
(***************************************************************************)
\* litmus.rs:362 with the index counted from one (enumerate is zero based).
SymbolicAddr_FromOne(i) == SymbolicAddrBase + ((i + 1) * SymbolicAddrStride)

\* litmus.rs:362: the address of the element with enumerate() index i.
SymbolicAddr(i) == SymbolicAddrBase + (i * SymbolicAddrStride)

\* litmus.rs:357-366: map over the enumerated array, collected into a
\* Result<HashMap, _>: the first non-string element ends it with an error, a
\* repeated key replaces the earlier entry. k is the 1-based position.
RECURSIVE CollectSymbolic(_, _, _)
CollectSymbolic(elems, k, acc) ==
    IF k > Len(elems) THEN Ok(acc)
    ELSE IF ~elems[k].is_str THEN Err(<<"Symbolic addresses must be strings">>)
    ELSE CollectSymbolic(elems, k + 1, (elems[k].s :> SymbolicAddr(k - 1)) @@ acc)

(***************************************************************************)
(* litmus.rs:220-252 parse_init, parse_thread_inits                        *)
(***************************************************************************)
\* litmus.rs:220-238
parse_init(reg, value, addrs) ==
    IF ResolveRegister(reg) = <<>>
    THEN Err(<<"No register ", reg, " in thread init">>)
    ELSE IF ~value.is_str THEN Err(<<"Init value must be a string">>)
    ELSE IF value.s \in DOMAIN addrs
         THEN Ok(<<ResolveRegister(reg)[1], addrs[value.s]>>)
         ELSE Panic(<<"Cannot handle init value in litmus">>)

\* litmus.rs:251: the entries in table order, stopping at the first error.
RECURSIVE CollectInits(_, _, _, _)
CollectInits(entries, k, addrs, acc) ==
    IF k > Len(entries) THEN Ok(acc)
    ELSE LET r == parse_init(entries[k].reg, entries[k].value, addrs)
         IN IF r.tag = "Ok"
            THEN CollectInits(entries, k + 1, addrs, Append(acc, r.val))
            ELSE r

\* litmus.rs:240-252
parse_thread_inits(thread, addrs) ==
    IF ~thread.init.present
    THEN Err(<<"Thread init must be a list of register name/value pairs">>)
    ELSE CollectInits(thread.init.entries, 1, addrs, <<>>)

\* litmus.rs:370-373: every thread of the table in key order.
RECURSIVE CollectThreadInits(_, _, _, _)
CollectThreadInits(tbl, k, addrs, acc) ==
    IF k > Len(tbl) THEN Ok(acc)
    ELSE LET r == parse_thread_inits(tbl[k], addrs)
         IN IF r.tag = "Ok"
            THEN CollectThreadInits(tbl, k + 1, addrs, Append(acc, r.val))
            ELSE r

\* litmus.rs:375-383
RECURSIVE CollectCode(_, _, _)
CollectCode(tbl, k, acc) ==
    IF k > Len(tbl) THEN Ok(acc)
    ELSE IF ~tbl[k].code.present
         THEN Err(<<"No code found for thread ", tbl[k].name>>)
         ELSE CollectCode(tbl, k + 1, Append(acc, [name |-> tbl[k].name, code |-> tbl[k].code.text]))

(***************************************************************************)
(* crate::sexp::Sexp as litmus.rs uses it                                  *)
(***************************************************************************)
SAtom(s) == [tag |-> "Atom", s |-> s]
SInt(n) == [tag |-> "Int", n |-> n]
SList(l) == [tag |-> "List", l |-> l]

\* Sexp::is_fn(name, args): a list headed by the atom `name` with at least
\* `args` elements after the head.
is_fn(sexp, name, args) ==
    /\ sexp.tag = "List"
    /\ Len(sexp.l) > args
    /\ sexp.l[1] = SAtom(name)

\* Sexp::as_str, Sexp::as_usize, Sexp::as_u64 as Options.
as_str(sexp) == IF sexp.tag = "Atom" THEN <<sexp.s>> ELSE <<>>
as_usize(sexp) == IF sexp.tag = "Int" /\ sexp.n >= 0 THEN <<sexp.n>> ELSE <<>>
as_u64(sexp) == IF sexp.tag = "Int" /\ sexp.n >= 0 THEN <<sexp.n>> ELSE <<>>

(***************************************************************************)
(* litmus.rs:262-324 Loc, Prop                                             *)
(***************************************************************************)
LocRegister(reg, thread_id) == [tag |-> "Register", reg |-> reg, thread_id |-> thread_id]
EqLoc(loc, bits) == [tag |-> "EqLoc", loc |-> loc, bits |-> bits]
PropAnd(ps) == [tag |-> "And", ps |-> ps]
PropOr(ps) == [tag |-> "Or", ps |-> ps]
PropNot(p) == [tag |-> "Not", p |-> p]
PropImplies(p, q) == [tag |-> "Implies", p |-> p, q |-> q]

\* litmus.rs:269-287 Loc::from_sexp, an Option
Loc_from_sexp(sexp) ==
    IF sexp.tag = "List" /\ is_fn(sexp, "register", 2) /\ Len(sexp.l) = 3
    THEN IF as_str(sexp.l[2]) = <<>> THEN <<>>
         ELSE IF ResolveRegister(as_str(sexp.l[2])[1]) = <<>> THEN <<>>
         ELSE IF as_usize(sexp.l[3]) = <<>> THEN <<>>
         ELSE <<LocRegister(ResolveRegister(as_str(sexp.l[2])[1])[1], as_usize(sexp.l[3])[1])>>
    ELSE <<>>

\* The guards of the branches of Prop::from_sexp (litmus.rs:304-315).
IsEqSexp(sexp) == is_fn(sexp, "=", 2) /\ Len(sexp.l) = 3
IsAndSexp(sexp) == is_fn(sexp, "and", 1)
IsOrSexp(sexp) == is_fn(sexp, "or", 1)
IsImpliesSexp(sexp) == is_fn(sexp, "=>", 2) /\ Len(sexp.l) = 3
\* litmus.rs:315 without the length test.
IsNotSexp_AnyArity(sexp) == is_fn(sexp, "not", 1)
IsNotSexp(sexp) == is_fn(sexp, "not", 1) /\ Len(sexp.l) = 2

\* litmus.rs:299-324 Prop::from_sexp, an Option; Props_from_sexps is the
\* map/collect::<Option<_>> of 307 and 309 over the elements from k on.
RECURSIVE Prop_from_sexp(_), Props_from_sexps(_, _, _)
Prop_from_sexp(sexp) ==
    IF sexp.tag # "List" THEN <<>>
    ELSE IF IsEqSexp(sexp)
         THEN IF Loc_from_sexp(sexp.l[2]) = <<>> \/ as_u64(sexp.l[3]) = <<>>
              THEN <<>>
              ELSE <<EqLoc(Loc_from_sexp(sexp.l[2])[1], as_u64(sexp.l[3])[1])>>
    ELSE IF IsAndSexp(sexp)
         THEN LET ps == Props_from_sexps(sexp.l, 2, <<>>)
              IN IF ps = <<>> THEN <<>> ELSE <<PropAnd(ps[1])>>
    ELSE IF IsOrSexp(sexp)
         THEN LET ps == Props_from_sexps(sexp.l, 2, <<>>)
              IN IF ps = <<>> THEN <<>> ELSE <<PropOr(ps[1])>>
    ELSE IF IsImpliesSexp(sexp)
         THEN LET p == Prop_from_sexp(sexp.l[2])
                  q == Prop_from_sexp(sexp.l[3])
              IN IF p = <<>> \/ q = <<>> THEN <<>> ELSE <<PropImplies(p[1], q[1])>>
    ELSE IF IsNotSexp(sexp)
         THEN LET p == Prop_from_sexp(sexp.l[2])
              IN IF p = <<>> THEN <<>> ELSE <<PropNot(p[1])>>
    ELSE <<>>

Props_from_sexps(l, k, acc) ==
    IF k > Len(l) THEN <<acc>>
    ELSE LET p == Prop_from_sexp(l[k])
         IN IF p = <<>> THEN <<>> ELSE Props_from_sexps(l, k + 1, Append(acc, p[1]))

\* litmus.rs:392-398: the value of `final_assertion` before the `?`.
\* fin = [present, has_assertion, parses, sexp]: the `final` table, its
\* `assertion` string, whether the S-expression parser accepts that string
\* (parse_assertion, 254-260) and the S-expression it yields.
FinalAssertion(fin) ==
    IF ~fin.present THEN Err(<<"No final section found in litmus file">>)
    ELSE IF ~fin.has_assertion THEN Err(<<"No final.assertion found in litmus file">>)
    ELSE IF ~fin.parses THEN Err(<<"Could not parse final state in litmus file: ">>)
    ELSE IF Prop_from_sexp(fin.sexp) = <<>> THEN Err(<<"Cannot parse final assertion">>)
    ELSE Ok(Prop_from_sexp(fin.sexp))

(***************************************************************************)
(* litmus.rs:123-209 assemble                                              *)
(***************************************************************************)
MaxSections == 3

Range(f) == { f[k] : k \in DOMAIN f }

\* litmus.rs:145,191: format!("litmus_{}", thread_name)
SectionName(thread_name) == [prefix |-> "litmus_", name |-> thread_name]
OtherSection == [prefix |-> "", name |-> ".text"]

\* The bytes buffer[sh_offset .. sh_offset + sh_size] of a section.
Section(sh_name) == [sh_name |-> sh_name, bytes |-> <<"bytes of", sh_name.name>>]

\* What Object::parse can make of the file the tools wrote for `threads`:
\* an ELF whose section headers come in any order and number, an object
\* of another format, or a parse error.
Objects(threads) ==
    { [kind |-> "elf", sections |-> ss] :
        ss \in SeqsUpTo({ Section(n) : n \in { SectionName(threads[k].name) : k \in DOMAIN threads }
                                         \cup {OtherSection} }, MaxSections) }
    \cup { [kind |-> "other", sections |-> <<>>], [kind |-> "error", sections |-> <<>>] }

\* litmus.rs:190-196: the inner loop over the threads for one section.
RECURSIVE ExtractSection(_, _, _, _)
ExtractSection(section, threads, k, acc) ==
    IF k > Len(threads) THEN acc
    ELSE ExtractSection(section, threads, k + 1,
            IF section.sh_name = SectionName(threads[k].name)
            THEN Append(acc, [name |-> threads[k].name, bytes |-> section.bytes])
            ELSE acc)

\* litmus.rs:188-198: the outer loop over the section headers.
RECURSIVE ExtractSections(_, _, _, _)
ExtractSections(sections, threads, i, acc) ==
    IF i > Len(sections) THEN acc
    ELSE ExtractSections(sections, threads, i + 1, ExtractSection(sections[i], threads, 1, acc))

\* litmus.rs:184-208
ExtractResult(obj, threads) ==
    CASE obj.kind = "other" -> Err(<<"Generated object was not an ELF file">>)
      [] obj.kind = "error" -> Err(<<"Failed to parse ELF file: ">>)
      [] OTHER ->
            LET found == ExtractSections(obj.sections, threads, 1, <<>>)
            IN IF Len(found) # Len(threads)
               THEN Err(<<"Could not find all threads in generated ELF file">>)
               ELSE Ok(found)

\* The TmpFiles alive in assemble; returning drops each of them
\* (litmus.rs:84-88), which removes the file at its path.
OwnedTmps == Range(objfile) \cup Range(objfile_reloc) \cup Range(linker_script)

\* A return from assemble with value r, the files being fs just before.
AsmReturn(r, fs) ==
    /\ aresult' = r
    /\ apc' = "returned"
    /\ files' = fs \ OwnedTmps
    /\ objfile' = <<>>
    /\ objfile_reloc' = <<>>
    /\ linker_script' = <<>>

\* TmpFile::new called by the only thread of the front end (litmus.rs:62-70):
\* the directory exists afterwards and the counter is taken.
AsmTmpNew(path) ==
    /\ path = TmpPath(Pid, FetchAdd(tmpCounter).old)
    /\ tmpCounter' = FetchAdd(tmpCounter).new
    /\ tmpDir' = TRUE
    /\ handed' = Append(handed, path)
    /\ atmps' = atmps \cup {path}

\* litmus.rs:130
AsmNewObjfile ==
    /\ apc = "new_obj"
    /\ \E path \in {TmpPath(Pid, tmpCounter)} :
          AsmTmpNew(path) /\ objfile' = <<path>>
    /\ apc' = "spawn"
    /\ UNCHANGED <<irVars, primVars, tmpVars, parseVars, procVars, files,
                   athreads, reloc, aresult, objfile_reloc, linker_script, elf>>

\* litmus.rs:132-138: the spawn fails, or the assembler starts with the
\* object file's path after -o.
AsmSpawn ==
    /\ apc = "spawn"
    /\ \/ /\ AsmReturn(Err(<<"Failed to spawn assembler ">>), files)
          /\ UNCHANGED procVars
       \/ /\ asmproc' = "running"
          /\ asmout' = objfile
          /\ UNCHANGED <<asmexit, woutput>>
          /\ apc' = "stdin"
          /\ UNCHANGED <<aresult, files, objfile, objfile_reloc, linker_script>>
    /\ UNCHANGED <<irVars, primVars, tmpVars, parseVars, tmpDir, tmpCounter, handed,
                   athreads, reloc, atmps, elf>>

\* litmus.rs:141-149: the section header and the code of every thread are
\* written to the assembler's stdin; a failed write returns early.
AsmWriteStdin ==
    /\ apc = "stdin"
    /\ \/ /\ athreads # <<>>
          /\ AsmReturn(Err(<<"Failed to write to assembler input file ">>), files)
       \/ /\ apc' = "wait"
          /\ UNCHANGED <<aresult, files, objfile, objfile_reloc, linker_script>>
    /\ UNCHANGED <<irVars, primVars, tmpVars, parseVars, procVars, tmpDir, tmpCounter, handed,
                   athreads, reloc, atmps, elf>>

\* What the assembler prints before it exits with the given status.
AssemblerStdout(status) == IF status = "failure" THEN <<"assembler diagnostic">> ELSE <<>>

\* litmus.rs:151: wait_with_output returns once the assembler has exited;
\* the Output it returns (exit status, stdout) is bound to `_` and not
\* looked at. It can also fail.
AsmWait ==
    /\ apc = "wait"
    /\ \/ /\ asmproc = "exited"
          /\ woutput' = <<[status |-> asmexit, stdout |-> AssemblerStdout(asmexit)]>>
          /\ apc' = IF reloc THEN "new_reloc" ELSE "read"
          /\ UNCHANGED <<aresult, files, objfile, objfile_reloc, linker_script>>
       \/ /\ AsmReturn(Err(<<"Failed to read stdout from assembler">>), files)
          /\ UNCHANGED woutput
    /\ UNCHANGED <<irVars, primVars, tmpVars, parseVars, asmproc, asmout, asmexit, tmpDir, tmpCounter, handed,
                   athreads, reloc, atmps, elf>>

\* The assembler, a process of its own: it may write its output file ...
AssemblerWrite ==
    /\ asmproc = "running"
    /\ asmout[1] \notin files
    /\ files' = files \cup {asmout[1]}
    /\ UNCHANGED <<irVars, primVars, tmpVars, parseVars, asmVars, procVars, tmpDir, tmpCounter, handed>>

\* ... and it exits, with or without having written it, accepting its
\* input or rejecting it.
AssemblerExit ==
    /\ asmproc = "running"
    /\ asmproc' = "exited"
    /\ asmexit' \in {"success", "failure"}
    /\ UNCHANGED <<irVars, primVars, tmpVars, parseVars, asmVars, asmout, woutput, fsVars>>

\* litmus.rs:154
AsmNewReloc ==
    /\ apc = "new_reloc"
    /\ \E path \in {TmpPath(Pid, tmpCounter)} :
          AsmTmpNew(path) /\ objfile_reloc' = <<path>>
    /\ apc' = "new_script"
    /\ UNCHANGED <<irVars, primVars, tmpVars, parseVars, procVars, files,
                   athreads, reloc, aresult, objfile, linker_script, elf>>

\* litmus.rs:155
AsmNewScript ==
    /\ apc = "new_script"
    /\ \E path \in {TmpPath(Pid, tmpCounter)} :
          AsmTmpNew(path) /\ linker_script' = <<path>>
    /\ apc' = "script"
    /\ UNCHANGED <<irVars, primVars, tmpVars, parseVars, procVars, files,
                   athreads, reloc, aresult, objfile, objfile_reloc, elf>>

\* litmus.rs:156-161: File::create and write_all of the linker script.
AsmWriteScript ==
    /\ apc = "script"
    /\ \/ AsmReturn(Err(<<"Failed to create temp file for linker script">>), files)
       \/ AsmReturn(Err(<<"Failed to write linker script">>), files \cup Range(linker_script))
       \/ /\ files' = files \cup Range(linker_script)
          /\ apc' = "link"
          /\ UNCHANGED <<aresult, objfile, objfile_reloc, linker_script>>
    /\ UNCHANGED <<irVars, primVars, tmpVars, parseVars, procVars, tmpDir, tmpCounter, handed,
                   athreads, reloc, atmps, elf>>

\* litmus.rs:163-176: the linker is run to completion (status()); it may
\* or may not have written its output, and it succeeds or fails. On
\* success the block ends: linker_script is dropped and objfile_reloc is
\* read from then on.
AsmLink ==
    /\ apc = "link"
    /\ \/ AsmReturn(Err(<<"Failed to invoke linker ">>), files)
       \/ \E wrote \in BOOLEAN :
            LET fs == IF wrote THEN files \cup Range(objfile_reloc) ELSE files
            IN \/ AsmReturn(Err(<<"Linker failed with exit code ">>), fs)
               \/ /\ files' = fs \ Range(linker_script)
                  /\ linker_script' = <<>>
                  /\ apc' = "read"
                  /\ UNCHANGED <<aresult, objfile, objfile_reloc>>
    /\ UNCHANGED <<irVars, primVars, tmpVars, parseVars, procVars, tmpDir, tmpCounter, handed,
                   athreads, reloc, atmps, elf>>

\* litmus.rs:153,177-179: the file `objfile` names after the if.
CurrentObjfile == IF reloc THEN objfile_reloc ELSE objfile

\* litmus.rs:181: read_to_end opens the file (76-81).
AsmRead ==
    /\ apc = "read"
    /\ IF CurrentObjfile[1] \in files
       THEN /\ apc' = "parse_elf"
            /\ UNCHANGED <<aresult, files, objfile, objfile_reloc, linker_script>>
       ELSE AsmReturn(Err(<<"Failed to read generated ELF file">>), files)
    /\ UNCHANGED <<irVars, primVars, tmpVars, parseVars, procVars, tmpDir, tmpCounter, handed,
                   athreads, reloc, atmps, elf>>

\* litmus.rs:184-208: the buffer is parsed and the sections extracted.
AsmExtract ==
    /\ apc = "parse_elf"
    /\ \E obj \in Objects(athreads) :
          /\ elf' = obj
          /\ AsmReturn(ExtractResult(obj, athreads), files)
    /\ UNCHANGED <<irVars, primVars, tmpVars, parseVars, procVars, tmpDir, tmpCounter, handed,
                   athreads, reloc, atmps>>

(***************************************************************************)
(* litmus.rs:343-401 Litmus::parse                                         *)
(***************************************************************************)
\* Litmus::parse returns r (an Err, a panic, or the final Ok).
ParseDone(r) ==
    /\ presult' = r
    /\ ppc' = "done"

\* litmus.rs:344-366: the TOML text, name, hash, the symbolic array and
\* the addresses given to its names.
ParseSymbolic ==
    /\ entry = "parse"
    /\ ppc = "start"
    /\ IF ~litmus.toml_ok
       THEN ParseDone(Err(<<"Error when parsing litmus: ">>)) /\ UNCHANGED symbolic_addrs
       ELSE IF ~litmus.has_name
       THEN ParseDone(Err(<<"No name found in litmus file">>)) /\ UNCHANGED symbolic_addrs
       ELSE IF ~litmus.symbolic.present
       THEN ParseDone(Err(<<"No symbolic addresses found in litmus file">>)) /\ UNCHANGED symbolic_addrs
       ELSE LET r == CollectSymbolic(litmus.symbolic.elems, 1, NoMap)
            IN IF r.tag = "Ok"
               THEN symbolic_addrs' = r.val /\ ppc' = "inits" /\ UNCHANGED presult
               ELSE ParseDone(r) /\ UNCHANGED symbolic_addrs
    /\ UNCHANGED <<irVars, primVars, fsVars, tmpVars, asmVars, procVars,
                   entry, litmus, inits, assembled, final_assertion>>

\* litmus.rs:368-373: the thread table and the register initialisations
\* of every thread.
ParseInits ==
    /\ ppc = "inits"
    /\ IF ~litmus.thread.present
       THEN ParseDone(Err(<<"No threads found in litmus file">>)) /\ UNCHANGED inits
       ELSE LET r == CollectThreadInits(litmus.thread.tbl, 1, symbolic_addrs, <<>>)
            IN IF r.tag = "Ok"
               THEN inits' = r.val /\ ppc' = "code" /\ UNCHANGED presult
               ELSE ParseDone(r) /\ UNCHANGED inits
    /\ UNCHANGED <<irVars, primVars, fsVars, tmpVars, asmVars, procVars,
                   entry, litmus, symbolic_addrs, assembled, final_assertion>>

\* litmus.rs:375-384: the code of every thread, then the call
\* assemble(&code, true, isa).
ParseCode ==
    /\ ppc = "code"
    /\ LET r == CollectCode(litmus.thread.tbl, 1, <<>>)
       IN IF r.tag = "Ok"
          THEN /\ athreads' = r.val
               /\ reloc' = TRUE
               /\ apc' = "new_obj"
               /\ ppc' = "assemble"
               /\ UNCHANGED presult
          ELSE ParseDone(r) /\ UNCHANGED <<athreads, reloc, apc>>
    /\ UNCHANGED <<irVars, primVars, fsVars, tmpVars, procVars,
                   entry, litmus, symbolic_addrs, inits, assembled, final_assertion,
                   aresult, objfile, objfile_reloc, linker_script, atmps, elf>>

\* litmus.rs:386-390: drain(..).zip(inits.drain(..)), the k-th entry that
\* assemble returned with the k-th element of inits.
ZipAssembled(asm, ins) ==
    [k \in 1..(IF Len(asm) < Len(ins) THEN Len(asm) ELSE Len(ins)) |->
        [name |-> asm[k].name, init |-> ins[k], code |-> asm[k].bytes]]

\* litmus.rs:384-390: assemble has returned; `?` passes its error on.
ParseAssembled ==
    /\ entry = "parse"
    /\ ppc = "assemble"
    /\ apc = "returned"
    /\ IF aresult.tag = "Ok"
       THEN /\ assembled' = ZipAssembled(aresult.val, inits)
            /\ ppc' = "final"
            /\ UNCHANGED presult
       ELSE ParseDone(Err(aresult.msg)) /\ UNCHANGED assembled
    /\ UNCHANGED <<irVars, primVars, fsVars, tmpVars, asmVars, procVars,
                   entry, litmus, symbolic_addrs, inits, final_assertion>>

\* litmus.rs:392-400: the final assertion and the Litmus value.
ParseFinal ==
    /\ ppc = "final"
    /\ LET r == FinalAssertion(litmus.final)
       IN IF r.tag = "Ok"
          THEN final_assertion' = r.val /\ ParseDone(Ok(<<>>))
          ELSE ParseDone(r) /\ UNCHANGED final_assertion
    /\ UNCHANGED <<irVars, primVars, fsVars, tmpVars, asmVars, procVars,
                   entry, litmus, symbolic_addrs, inits, assembled>>

(***************************************************************************)
(* litmus.rs:211-218 assemble_instruction                                  *)
(***************************************************************************)
\* litmus.rs:212-213: the call assemble(&[("single", instr + "\n")], false, isa)
AsmInstrCall ==
    /\ entry = "assemble_instruction"
    /\ ppc = "start"
    /\ athreads' = <<[name |-> "single", code |-> "nop\n"]>>
    /\ reloc' = FALSE
    /\ apc' = "new_obj"
    /\ ppc' = "assemble"
    /\ UNCHANGED <<irVars, primVars, fsVars, tmpVars, procVars,
                   entry, litmus, symbolic_addrs, inits, assembled, final_assertion, presult,
                   aresult, objfile, objfile_reloc, linker_script, atmps, elf>>

\* litmus.rs:213-217
AsmInstrReturn ==
    /\ entry = "assemble_instruction"
    /\ ppc = "assemble"
    /\ apc = "returned"
    /\ ParseDone(IF aresult.tag # "Ok" THEN Err(aresult.msg)
                 ELSE IF Len(aresult.val) = 1 THEN Ok(aresult.val[1].bytes)
                 ELSE Err(<<"Failed to assemble instruction ", "nop\n">>))
    /\ UNCHANGED <<irVars, primVars, fsVars, tmpVars, asmVars, procVars,
                   entry, litmus, symbolic_addrs, inits, assembled, final_assertion>>

(***************************************************************************)
(* The litmus files given to Litmus::parse                                 *)
(***************************************************************************)
MaxSymbolic == 2

SymbolicChoices ==
    { [present |-> FALSE, elems |-> <<>>] }
    \cup { [present |-> TRUE, elems |-> e] :
             e \in SeqsUpTo({TomlStr("x"), TomlStr("y"), TomlOther}, MaxSymbolic) }

InitEntry(reg, value) == [reg |-> reg, value |-> value]

\* The `init` of a thread: absent (or no table), or a table, its entries in
\* key order.
InitChoices ==
    { [present |-> FALSE, entries |-> <<>>] }
    \cup { [present |-> TRUE, entries |-> e] :
             e \in { <<>>,
                     <<InitEntry("X0", TomlStr("x"))>>,
                     <<InitEntry("X0", TomlStr("y"))>>,
                     <<InitEntry("X0", TomlOther)>>,
                     <<InitEntry("Q9", TomlStr("x"))>>,
                     <<InitEntry("R1", TomlStr("x")), InitEntry("X0", TomlStr("y"))>> } }

CodeChoices == { [present |-> FALSE, text |-> ""], [present |-> TRUE, text |-> "nop"] }

ThreadChoices(name) ==
    { [name |-> name, init |-> i, code |-> c] : i \in InitChoices, c \in CodeChoices }

\* The `thread` table: absent, or the threads in key order.
ThreadTables ==
    { [present |-> FALSE, tbl |-> <<>>], [present |-> TRUE, tbl |-> <<>>] }
    \cup { [present |-> TRUE, tbl |-> <<t0>>] : t0 \in ThreadChoices("0") }
    \cup { [present |-> TRUE, tbl |-> <<t0, t1>>] :
             t0 \in ThreadChoices("0"), t1 \in ThreadChoices("1") }

RegisterSexp(reg, tid) == SList(<<SAtom("register"), SAtom(reg), SInt(tid)>>)
EqSexp(loc, v) == SList(<<SAtom("="), loc, SInt(v)>>)

FinalOf(sexp) == [present |-> TRUE, has_assertion |-> TRUE, parses |-> TRUE, sexp |-> sexp]

FinalChoices ==
    { [present |-> FALSE, has_assertion |-> FALSE, parses |-> FALSE, sexp |-> SList(<<>>)],
      [present |-> TRUE, has_assertion |-> FALSE, parses |-> FALSE, sexp |-> SList(<<>>)],
      [present |-> TRUE, has_assertion |-> TRUE, parses |-> FALSE, sexp |-> SList(<<>>)],
      FinalOf(EqSexp(RegisterSexp("X0", 0), 1)),
      FinalOf(SList(<<SAtom("not"), EqSexp(RegisterSexp("X0", 0), 1), EqSexp(RegisterSexp("X0", 1), 0)>>)) }

LitmusFiles ==
    { [NoLitmus EXCEPT !.has_name = TRUE], [NoLitmus EXCEPT !.toml_ok = TRUE] }
    \cup { [toml_ok |-> TRUE, has_name |-> TRUE, symbolic |-> sy, thread |-> th, final |-> fi] :
             sy \in SymbolicChoices, th \in ThreadTables, fi \in FinalChoices }

(***************************************************************************)
(* Specification of the litmus front end                                   *)
(***************************************************************************)
InitLitmus ==
    /\ IRIdle
    /\ TmpIdle
    /\ FsInit
    /\ \/ entry = "parse" /\ litmus \in LitmusFiles
       \/ entry = "assemble_instruction" /\ litmus = NoLitmus
    /\ ppc = "start"
    /\ ParseIdle
    /\ AsmIdle
    /\ PrimIdle

NextLitmus ==
    \/ ParseSymbolic \/ ParseInits \/ ParseCode \/ ParseAssembled \/ ParseFinal
    \/ AsmInstrCall \/ AsmInstrReturn
    \/ AsmNewObjfile \/ AsmSpawn \/ AsmWriteStdin \/ AsmWait
    \/ AsmNewReloc \/ AsmNewScript \/ AsmWriteScript \/ AsmLink
    \/ AsmRead \/ AsmExtract
    \/ AssemblerWrite \/ AssemblerExit

SpecLitmus == InitLitmus /\ [][NextLitmus]_vars

(***************************************************************************)
(* Claims about the litmus front end                                       *)
(***************************************************************************)
\* The threads of the litmus file, by name.
ThreadNamed(name) ==
    CHOOSE t \in Range(litmus.thread.tbl) : t.name = name

ParseReturnedOk == entry = "parse" /\ ppc = "done" /\ presult.tag = "Ok"

\* The ELF holds exactly one section litmus_<name> for every thread.
OneSectionPerThread ==
    \A k \in DOMAIN athreads :
        Cardinality({ i \in DOMAIN elf.sections :
                        elf.sections[i].sh_name = [prefix |-> "litmus_", name |-> athreads[k].name] }) = 1

\* C4: in the Litmus that Litmus::parse returns, every entry of `assembled`
\* combines a thread name with the register initialisations parsed from that
\* thread's init table and with the bytes of the section litmus_<name>,
\* whatever the order of the sections in the ELF file (an ELF with one
\* section per thread).
C4_EntryBelongsToOneThread ==
    (ParseReturnedOk /\ OneSectionPerThread) =>
        \A k \in DOMAIN assembled :
            /\ \E t \in Range(litmus.thread.tbl) : t.name = assembled[k].name
            /\ assembled[k].init = parse_thread_inits(ThreadNamed(assembled[k].name), symbolic_addrs).val
            /\ \E i \in DOMAIN elf.sections :
                  /\ elf.sections[i].sh_name = [prefix |-> "litmus_", name |-> assembled[k].name]
                  /\ elf.sections[i].bytes = assembled[k].code

AllThreadSectionsFound ==
    \A k \in DOMAIN athreads :
        \E i \in DOMAIN elf.sections :
            elf.sections[i].sh_name = [prefix |-> "litmus_", name |-> athreads[k].name]

\* C5: assemble returns Ok only if the ELF has a section litmus_<name> for
\* every input thread, and the Ok result then holds exactly one entry per
\* thread; in every other case where the ELF parses it returns "Could not
\* find all threads in generated ELF file".
C5_OkOnlyWithAllSections ==
    (apc = "returned" /\ elf.kind = "elf") =>
        IF aresult.tag = "Ok"
        THEN /\ AllThreadSectionsFound
             /\ \A k \in DOMAIN athreads :
                   Cardinality({ j \in DOMAIN aresult.val : aresult.val[j].name = athreads[k].name }) = 1
        ELSE aresult = [tag |-> "Err",
                        msg |-> <<"Could not find all threads in generated ELF file">>,
                        val |-> <<>>]

\* C6: whenever assemble has returned, with Ok or with any error, none of
\* the temporary files created for that call exists, also when the
\* assembler was still running at an early error return.
C6_NoTmpFileLeft ==
    apc = "returned" => atmps \cap files = {}

\* C8: Litmus::parse never panics on the content of the litmus file; it
\* returns Ok or an Err with a descriptive string.
C8_ParseNeverPanics ==
    (entry = "parse" /\ ppc = "done") =>
        /\ presult.tag \in {"Ok", "Err"}
        /\ presult.tag = "Err" => presult.msg # <<>>

\* The symbolic array has been turned into symbolic_addrs.
SymbolicAssigned ==
    /\ entry = "parse"
    /\ ppc # "start"
    /\ litmus.toml_ok /\ litmus.has_name /\ litmus.symbolic.present
    /\ \A k \in DOMAIN litmus.symbolic.elems : litmus.symbolic.elems[k].is_str

\* C9 as claimed: for every index i of the symbolic list,
\* symbolic_addrs[names[i]] = symbolic_addr_base + i * symbolic_addr_stride
\* (i counted from zero).
C9_AddressAtEveryIndex ==
    SymbolicAssigned =>
        \A k \in DOMAIN litmus.symbolic.elems :
            /\ litmus.symbolic.elems[k].s \in DOMAIN symbolic_addrs
            /\ symbolic_addrs[litmus.symbolic.elems[k].s]
                 = SymbolicAddrBase + ((k - 1) * SymbolicAddrStride)

\* C9 amended: every declared name has an address, no other name has one,
\* and the address of a name is symbolic_addr_base + i * symbolic_addr_stride
\* for the last index i at which the name is declared (for every index, when
\* the names are distinct).
C9_AddressAtLastIndex ==
    SymbolicAssigned =>
        LET names == litmus.symbolic.elems
        IN /\ DOMAIN symbolic_addrs = { names[k].s : k \in DOMAIN names }
           /\ \A k \in DOMAIN names :
                 (\A j \in DOMAIN names : j > k => names[j].s # names[k].s)
                    => symbolic_addrs[names[k].s]
                         = SymbolicAddrBase + ((k - 1) * SymbolicAddrStride)

\* C9 witness: two names declared, "y" before "x", and both addressed.
C9_Witness ==
    /\ SymbolicAssigned
    /\ ppc = "inits"
    /\ litmus.symbolic.elems = <<[is_str |-> TRUE, s |-> "y"], [is_str |-> TRUE, s |-> "x"]>>
    /\ symbolic_addrs["x"] = SymbolicAddrBase + SymbolicAddrStride

(***************************************************************************)
(* Specification of the final assertion: Litmus::parse from line 392 on,   *)
(* for a litmus file that got there, over a wide set of S-expressions      *)
(***************************************************************************)
MaxArgs == 3

GoodEq == EqSexp(RegisterSexp("X0", 0), 1)
BadEq == EqSexp(RegisterSexp("Q9", 0), 1)

LocSexps ==
    { RegisterSexp("X0", 0), RegisterSexp("R1", 1), RegisterSexp("Q9", 0), RegisterSexp("X0", -1),
      SList(<<SAtom("register"), SAtom("X0")>>),
      SList(<<SAtom("register"), SAtom("X0"), SInt(0), SInt(0)>>),
      SList(<<SAtom("register"), SInt(0), SInt(0)>>),
      SList(<<SAtom("register"), SAtom("X0"), SAtom("t")>>),
      SList(<<SAtom("last_write_to"), SAtom("x"), SInt(0)>>),
      SAtom("X0") }

EqSexps ==
    { SList(<<SAtom("="), l, v>>) : l \in LocSexps, v \in {SInt(1), SInt(-1), SAtom("v")} }
    \cup { SList(<<SAtom("="), l>>) : l \in LocSexps }
    \cup { SList(<<SAtom("="), l, SInt(1), SInt(1)>>) : l \in LocSexps }

OpNames == {"and", "or", "not", "=>", "xor"}

\* An operator applied to up to MaxArgs of the two equalities ...
Depth1Sexps ==
    { SList(<<SAtom(op)>> \o args) : op \in OpNames, args \in SeqsUpTo({GoodEq, BadEq}, MaxArgs) }

\* ... and an operator applied to one or two of those.
Depth2Sexps ==
    { SList(<<SAtom(op), p>>) : op \in OpNames, p \in Depth1Sexps }
    \cup { SList(<<SAtom(op), p, q>>) :
             op \in OpNames, p \in Depth1Sexps \cup {GoodEq}, q \in Depth1Sexps \cup {GoodEq} }

AssertionSexps ==
    { SAtom("true"), SInt(1), SList(<<>>), SList(<<GoodEq, GoodEq>>) }
    \cup EqSexps \cup Depth1Sexps \cup Depth2Sexps

\* A litmus file with one symbolic address and one thread, which reaches
\* line 392 when the tools do their work.
LitmusWithFinal(fin) ==
    [toml_ok |-> TRUE, has_name |-> TRUE,
     symbolic |-> [present |-> TRUE, elems |-> <<TomlStr("x")>>],
     thread |-> [present |-> TRUE,
                 tbl |-> <<[name |-> "0",
                            init |-> [present |-> TRUE, entries |-> <<InitEntry("X0", TomlStr("x"))>>],
                            code |-> [present |-> TRUE, text |-> "nop"]]>>],
     final |-> fin]

\* The state of Litmus::parse at line 392 for such a file.
AtFinal ==
    /\ entry = "parse"
    /\ ppc = "final"
    /\ symbolic_addrs = ("x" :> SymbolicAddrBase)
    /\ inits = << <<<<1, SymbolicAddrBase>>>> >>
    /\ assembled = <<[name |-> "0", init |-> <<<<1, SymbolicAddrBase>>>>,
                      code |-> Section(SectionName("0")).bytes]>>
    /\ final_assertion = <<>>
    /\ presult = NoResult
    /\ athreads = <<[name |-> "0", code |-> "nop"]>>
    /\ reloc = TRUE
    /\ apc = "returned"
    /\ aresult = Ok(<<[name |-> "0", bytes |-> Section(SectionName("0")).bytes]>>)
    /\ objfile = <<>> /\ objfile_reloc = <<>> /\ linker_script = <<>>
    /\ atmps = { TmpPath(Pid, 0), TmpPath(Pid, 1), TmpPath(Pid, 2) }
    /\ elf = [kind |-> "elf", sections |-> <<Section(SectionName("0"))>>]
    /\ asmproc = "exited"
    /\ asmout = <<TmpPath(Pid, 0)>>
    /\ asmexit = "success"
    /\ woutput = <<[status |-> "success", stdout |-> <<>>]>>
    /\ tmpDir = TRUE
    /\ files = {}
    /\ tmpCounter = 3
    /\ handed = <<TmpPath(Pid, 0), TmpPath(Pid, 1), TmpPath(Pid, 2)>>

InitAssertion ==
    /\ IRIdle
    /\ TmpIdle
    /\ PrimIdle
    /\ litmus \in { LitmusWithFinal(FinalOf(sexp)) : sexp \in AssertionSexps }
    /\ AtFinal

NextAssertion == ParseFinal

SpecAssertion == InitAssertion /\ [][NextAssertion]_vars

\* The shapes the claim admits: (= (register name thread_id) value),
\* (and p ...), (or p ...) with at least one operand, (not p), (=> p q).
WellShapedLoc(sexp) ==
    /\ sexp.tag = "List"
    /\ Len(sexp.l) = 3
    /\ sexp.l[1] = [tag |-> "Atom", s |-> "register"]
    /\ sexp.l[2].tag = "Atom"
    /\ ResolveRegister(sexp.l[2].s) # <<>>
    /\ sexp.l[3].tag = "Int"
    /\ sexp.l[3].n >= 0

RECURSIVE WellShaped(_)
WellShaped(sexp) ==
    /\ sexp.tag = "List"
    /\ Len(sexp.l) >= 1
    /\ sexp.l[1].tag = "Atom"
    /\ CASE sexp.l[1].s = "=" ->
              /\ Len(sexp.l) = 3
              /\ WellShapedLoc(sexp.l[2])
              /\ sexp.l[3].tag = "Int"
              /\ sexp.l[3].n >= 0
         [] sexp.l[1].s \in {"and", "or"} ->
              /\ Len(sexp.l) >= 2
              /\ \A k \in 2..Len(sexp.l) : WellShaped(sexp.l[k])
         [] sexp.l[1].s = "not" ->
              /\ Len(sexp.l) = 2
              /\ WellShaped(sexp.l[2])
         [] sexp.l[1].s = "=>" ->
              /\ Len(sexp.l) = 3
              /\ WellShaped(sexp.l[2])
              /\ WellShaped(sexp.l[3])
         [] OTHER -> FALSE

\* The Prop a well-shaped assertion stands for.
RECURSIVE PropOf(_)
PropOf(sexp) ==
    CASE sexp.l[1].s = "=" ->
            [tag |-> "EqLoc",
             loc |-> [tag |-> "Register", reg |-> ResolveRegister(sexp.l[2].l[2].s)[1],
                      thread_id |-> sexp.l[2].l[3].n],
             bits |-> sexp.l[3].n]
      [] sexp.l[1].s = "and" ->
            [tag |-> "And", ps |-> [k \in 1..(Len(sexp.l) - 1) |-> PropOf(sexp.l[k + 1])]]
      [] sexp.l[1].s = "or" ->
            [tag |-> "Or", ps |-> [k \in 1..(Len(sexp.l) - 1) |-> PropOf(sexp.l[k + 1])]]
      [] sexp.l[1].s = "not" -> [tag |-> "Not", p |-> PropOf(sexp.l[2])]
      [] OTHER -> [tag |-> "Implies", p |-> PropOf(sexp.l[2]), q |-> PropOf(sexp.l[3])]

\* C10: Prop::from_sexp accepts (not p) only with exactly one argument,
\* (=> p q) only with exactly two and (= loc value) only with a (register
\* name thread_id) location and one value; an assertion of any other shape,
\* or with a sub-expression of any other shape at any depth, makes
\* Litmus::parse fail with "Cannot parse final assertion" and yields no Prop.
C10_OnlyWellShapedAccepted ==
    (entry = "parse" /\ ppc = "done" /\ litmus.final.present /\ litmus.final.has_assertion
        /\ litmus.final.parses /\ assembled # <<>>) =>
        IF WellShaped(litmus.final.sexp)
        THEN presult.tag = "Ok" /\ final_assertion = <<PropOf(litmus.final.sexp)>>
        ELSE /\ presult = [tag |-> "Err", msg |-> <<"Cannot parse final assertion">>, val |-> <<>>]
             /\ final_assertion = <<>>

\* C10 witness: (and (and good) (not good good)) has been rejected: the
\* two-argument `not` sits one level down.
C10_Witness ==
    /\ ppc = "done"
    /\ litmus.final.sexp =
          SList(<<SAtom("and"), SList(<<SAtom("and"), GoodEq>>), SList(<<SAtom("not"), GoodEq, GoodEq>>)>>)
    /\ presult.tag = "Err"

(***************************************************************************)
(* The assembler rejecting its input                                       *)
(***************************************************************************)
\* C11: when assemble has waited for an assembler that exited
\* unsuccessfully, it returns an error, and the error message carries the
\* diagnostic the assembler printed.
C11_RejectionReported ==
    (apc = "returned" /\ woutput # <<>> /\ woutput[1].status = "failure") =>
        /\ aresult.tag = "Err"
        /\ \E k \in DOMAIN aresult.msg : aresult.msg[k] \in Range(woutput[1].stdout)

(***************************************************************************)
(* Bit-vectors, as the solver and concrete::BV understand them: a sequence *)
(* of BOOLEAN whose element 1 is bit 0                                     *)
(***************************************************************************)
Zeros(n) == [i \in 1..n |-> FALSE]
Ones(n) == [i \in 1..n |-> TRUE]
IsZero(bv) == \A i \in DOMAIN bv : ~bv[i]

BvNot(a) == [i \in DOMAIN a |-> ~a[i]]
BvAnd(a, b) == [i \in DOMAIN a |-> a[i] /\ b[i]]
BvOr(a, b) == [i \in DOMAIN a |-> a[i] \/ b[i]]
BvXor(a, b) == [i \in DOMAIN a |-> a[i] # b[i]]

\* Bits lo..hi (numbered from 0) of bv.
BvExtract(hi, lo, bv) == [i \in 1..(hi - lo + 1) |-> bv[lo + i]]
BvZeroExtend(n, bv) == bv \o Zeros(n)

\* The value is below 2^15: it is then handled as an integer.
IsSmall(bv) == \A i \in DOMAIN bv : i > 15 => ~bv[i]

RECURSIVE ToNatFrom(_, _)
ToNatFrom(bv, i) ==
    IF i > Len(bv) \/ i > 15 THEN 0
    ELSE (IF bv[i] THEN 2^(i - 1) ELSE 0) + ToNatFrom(bv, i + 1)

\* The unsigned value of a small bit-vector.
ToNat(bv) == ToNatFrom(bv, 1)

\* The w low bits of the natural number n (n < 2^31).
FromNat(n, w) == [i \in 1..w |-> i <= 31 /\ (n \div 2^(i - 1)) % 2 = 1]

\* The w low bits of the two's complement form of the integer i.
FromInt(i, w) == IF i >= 0 THEN FromNat(i, w) ELSE BvNot(FromNat((-i) - 1, w))

\* The carry into position i of a + b + cin: some position below i
\* generates a carry (position 0 standing for cin) and every position
\* between the two propagates it.
Carry(a, b, cin, i) ==
    \E j \in 0..(i - 1) :
        /\ IF j = 0 THEN cin ELSE a[j] /\ b[j]
        /\ \A k \in (j + 1)..(i - 1) : a[k] \/ b[k]

AddWithCarry(a, b, cin) == [i \in DOMAIN a |-> (a[i] # b[i]) # Carry(a, b, cin, i)]

BvAdd(a, b) ==
    IF IsSmall(a) /\ IsSmall(b) THEN FromNat(ToNat(a) + ToNat(b), Len(a))
    ELSE AddWithCarry(a, b, FALSE)

BvSub(a, b) == AddWithCarry(a, BvNot(b), TRUE)
BvNeg(a) == AddWithCarry(Zeros(Len(a)), BvNot(a), TRUE)

\* A result this model does not compute: a bit-vector of no width, equal
\* to no bit-vector a primop can return for operands of positive width.
NotComputed == <<>>

\* The sign bit, and the signed value of a bit-vector that is small or the
\* two's complement form of a small negative number.
Msb(bv) == bv[Len(bv)]
IsSmallSigned(bv) == IF Msb(bv) THEN IsSmall(BvNot(bv)) ELSE IsSmall(bv)
ToInt(bv) == IF Msb(bv) THEN -(ToNat(BvNot(bv)) + 1) ELSE ToNat(bv)

\* bvmul, for a zero operand or two operands of small magnitude: the
\* product modulo 2^w is the same for the signed and the unsigned reading.
BvMul(a, b) ==
    IF IsZero(a) \/ IsZero(b) THEN Zeros(Len(a))
    ELSE IF IsSmall(a) /\ IsSmall(b) THEN FromNat(ToNat(a) * ToNat(b), Len(a))
    ELSE IF IsSmallSigned(a) /\ IsSmallSigned(b) THEN FromInt(ToInt(a) * ToInt(b), Len(a))
    ELSE NotComputed

\* Long division of a bit-vector of any width by a small divisor d > 0, in
\* base 256: the k-th digit of a (digit 0 the lowest), the remainder the
\* digits above k leave, and the k-th digit of the quotient.
NumDigits(a) == (Len(a) + 7) \div 8
Digit(a, k) ==
    LET bit(i) == IF 8 * k + i <= Len(a) /\ a[8 * k + i] THEN 2^(i - 1) ELSE 0
    IN bit(1) + bit(2) + bit(3) + bit(4) + bit(5) + bit(6) + bit(7) + bit(8)

RECURSIVE RemAbove(_, _, _)
RemAbove(a, d, k) ==
    IF k >= NumDigits(a) - 1 THEN 0
    ELSE (RemAbove(a, d, k + 1) * 256 + Digit(a, k + 1)) % d

QuotDigit(a, d, k) == (RemAbove(a, d, k) * 256 + Digit(a, k)) \div d

DivSmall(a, d) ==
    [i \in DOMAIN a |-> (QuotDigit(a, d, (i - 1) \div 8) \div 2^((i - 1) % 8)) % 2 = 1]
RemSmall(a, d) == FromNat(RemAbove(a, d, -1), Len(a))

\* bvudiv: division by zero gives all ones (SMT-LIB).
BvUdiv(a, b) ==
    IF IsZero(b) THEN Ones(Len(a))
    ELSE IF IsSmall(b) THEN DivSmall(a, ToNat(b))
    ELSE IF IsSmall(a) THEN Zeros(Len(a))
    ELSE NotComputed

\* bvurem: the remainder of a division by zero is the dividend (SMT-LIB).
BvUrem(a, b) ==
    IF IsZero(b) THEN a
    ELSE IF IsSmall(b) THEN RemSmall(a, ToNat(b))
    ELSE IF IsSmall(a) THEN a
    ELSE NotComputed

BvAbs(a) == IF Msb(a) THEN BvNeg(a) ELSE a

\* bvsdiv (SMT-LIB): the unsigned quotient of the magnitudes, negated when
\* the signs differ.
BvSdiv(a, b) ==
    LET q == BvUdiv(BvAbs(a), BvAbs(b))
    IN IF q = NotComputed THEN NotComputed
       ELSE IF Msb(a) = Msb(b) THEN q ELSE BvNeg(q)

\* bvsmod (SMT-LIB): the remainder takes the sign of the divisor.
BvSmod(a, b) ==
    LET u == BvUrem(BvAbs(a), BvAbs(b))
    IN IF u = NotComputed THEN NotComputed
       ELSE IF IsZero(u) THEN u
       ELSE IF ~Msb(a) /\ ~Msb(b) THEN u
       ELSE IF Msb(a) /\ ~Msb(b) THEN BvAdd(BvNeg(u), b)
       ELSE IF ~Msb(a) /\ Msb(b) THEN BvAdd(u, b)
       ELSE BvNeg(u)

\* bvshl and bvlshr: a shift by the width or more gives zero.
BvShl(a, s) ==
    IF ~IsSmall(s) THEN Zeros(Len(a))
    ELSE [i \in DOMAIN a |-> i - ToNat(s) >= 1 /\ a[i - ToNat(s)]]

BvLshr(a, s) ==
    IF ~IsSmall(s) THEN Zeros(Len(a))
    ELSE [i \in DOMAIN a |-> i + ToNat(s) <= Len(a) /\ a[i + ToNat(s)]]

(***************************************************************************)
(* ir::Val, smtlib::Exp, smtlib::Def and the Solver facade as primop.rs    *)
(* uses them                                                               *)
(***************************************************************************)
VSymbolic(v) == [tag |-> "Symbolic", sym |-> v]
VBits(bv) == [tag |-> "Bits", bv |-> bv]
VI64(i) == [tag |-> "I64", i |-> i]
VI128(i) == [tag |-> "I128", i |-> i]
VBool(b) == [tag |-> "Bool", b |-> b]
VString(str) == [tag |-> "String", str |-> str]
VList(elems) == [tag |-> "List", elems |-> elems]
VUnit == [tag |-> "Unit"]
\* Val::Enum(EnumMember) and Val::Struct(HashMap<u32, Val>).
VEnum(e) == [tag |-> "Enum", member |-> e]
VStruct(fields) == [tag |-> "Struct", fields |-> fields]

\* BV::MAX_WIDTH of the concrete bit-vector type B64.
MAX_WIDTH == 64

EVar(v) == [tag |-> "Var", sym |-> v]
EEnum(e) == [tag |-> "Enum", member |-> e]
EBits(bv) == [tag |-> "Bits", bv |-> bv]
EBits64(bv) == [tag |-> "Bits64", bv |-> bv]
EBool(b) == [tag |-> "Bool", b |-> b]
EOp(op, args) == [tag |-> op, args |-> args]
EExtract(hi, lo, e) == [tag |-> "Extract", hi |-> hi, lo |-> lo, arg |-> e]
EZeroExtend(n, e) == [tag |-> "ZeroExtend", n |-> n, arg |-> e]

\* The value of an expression under an assignment m of values to symbols.
RECURSIVE Eval(_, _)
Eval(e, m) ==
    CASE e.tag = "Var" -> m[e.sym]
      [] e.tag \in {"Bits", "Bits64"} -> VBits(e.bv)
      [] e.tag = "Bool" -> VBool(e.b)
      [] e.tag = "Enum" -> VEnum(e.member)
      [] e.tag = "Concat" -> VBits(Eval(e.args[2], m).bv \o Eval(e.args[1], m).bv)
      [] e.tag = "Extract" -> VBits(BvExtract(e.hi, e.lo, Eval(e.arg, m).bv))
      [] e.tag = "ZeroExtend" -> VBits(BvZeroExtend(e.n, Eval(e.arg, m).bv))
      [] e.tag = "Not" -> VBool(~Eval(e.args[1], m).b)
      [] e.tag = "And" -> VBool(Eval(e.args[1], m).b /\ Eval(e.args[2], m).b)
      [] e.tag = "Or" -> VBool(Eval(e.args[1], m).b \/ Eval(e.args[2], m).b)
      [] e.tag = "Eq" -> VBool(Eval(e.args[1], m) = Eval(e.args[2], m))
      [] e.tag = "Neq" -> VBool(Eval(e.args[1], m) # Eval(e.args[2], m))
      [] e.tag = "Ite" -> IF Eval(e.args[1], m).b THEN Eval(e.args[2], m) ELSE Eval(e.args[3], m)
      [] e.tag = "Bvnot" -> VBits(BvNot(Eval(e.args[1], m).bv))
      [] e.tag = "Bvand" -> VBits(BvAnd(Eval(e.args[1], m).bv, Eval(e.args[2], m).bv))
      [] e.tag = "Bvor" -> VBits(BvOr(Eval(e.args[1], m).bv, Eval(e.args[2], m).bv))
      [] e.tag = "Bvxor" -> VBits(BvXor(Eval(e.args[1], m).bv, Eval(e.args[2], m).bv))
      [] e.tag = "Bvadd" -> VBits(BvAdd(Eval(e.args[1], m).bv, Eval(e.args[2], m).bv))
      [] e.tag = "Bvsub" -> VBits(BvSub(Eval(e.args[1], m).bv, Eval(e.args[2], m).bv))
      [] e.tag = "Bvneg" -> VBits(BvNeg(Eval(e.args[1], m).bv))
      [] e.tag = "Bvmul" -> VBits(BvMul(Eval(e.args[1], m).bv, Eval(e.args[2], m).bv))
      [] e.tag = "Bvudiv" -> VBits(BvUdiv(Eval(e.args[1], m).bv, Eval(e.args[2], m).bv))
      [] e.tag = "Bvsdiv" -> VBits(BvSdiv(Eval(e.args[1], m).bv, Eval(e.args[2], m).bv))
      [] e.tag = "Bvsmod" -> VBits(BvSmod(Eval(e.args[1], m).bv, Eval(e.args[2], m).bv))
      [] e.tag = "Bvshl" -> VBits(BvShl(Eval(e.args[1], m).bv, Eval(e.args[2], m).bv))
      [] e.tag = "Bvlshr" -> VBits(BvLshr(Eval(e.args[1], m).bv, Eval(e.args[2], m).bv))

\* The width of a bit-vector expression as the solver tracks it:
\* <<n>>, or <<>> for an expression that is not a bit-vector.
RECURSIVE ExpLength(_, _)
ExpLength(e, lens) ==
    CASE e.tag = "Var" -> IF e.sym \in DOMAIN lens THEN lens[e.sym] ELSE <<>>
      [] e.tag \in {"Bits", "Bits64"} -> <<Len(e.bv)>>
      [] e.tag = "Extract" -> <<(e.hi - e.lo) + 1>>
      [] e.tag = "ZeroExtend" ->
            IF ExpLength(e.arg, lens) = <<>> THEN <<>> ELSE <<ExpLength(e.arg, lens)[1] + e.n>>
      [] e.tag \in {"Bool", "Enum", "Not", "And", "Or", "Eq", "Neq"} -> <<>>
      [] e.tag = "Ite" -> ExpLength(e.args[2], lens)
      [] e.tag = "Concat" ->
            IF ExpLength(e.args[1], lens) = <<>> \/ ExpLength(e.args[2], lens) = <<>> THEN <<>>
            ELSE <<ExpLength(e.args[1], lens)[1] + ExpLength(e.args[2], lens)[1]>>
      [] OTHER -> ExpLength(e.args[1], lens)

DeclareConst(v, len) == [tag |-> "DeclareConst", sym |-> v, len |-> len]
DefineConst(v, e) == [tag |-> "DefineConst", sym |-> v, exp |-> e]
DefAssert(e) == [tag |-> "Assert", exp |-> e]

\* A solver in which the symbols 0 .. Len(lens) - 1 are declared, lens[k + 1]
\* being <<n>> for a bit-vector of width n and <<>> for a Boolean.
SolverWith(lens) ==
    [fresh |-> Len(lens),
     lens |-> [v \in 0..(Len(lens) - 1) |-> lens[v + 1]],
     defs |-> [k \in 1..Len(lens) |-> DeclareConst(k - 1, lens[k])]]

\* Solver::length
solver_length(s, v) == IF v \in DOMAIN s.lens THEN s.lens[v] ELSE <<>>

\* Solver::add
solver_add(s, def) ==
    [s EXCEPT !.defs = Append(@, def),
              !.lens = IF def.tag = "DefineConst"
                       THEN (def.sym :> ExpLength(def.exp, s.lens)) @@ @
                       ELSE @]

\* Solver::fresh followed by Solver::add of the definition; the two
\* together are Solver::define_const. The result names the new symbol.
define_const(s, e) ==
    [sym |-> s.fresh, solver |-> solver_add([s EXCEPT !.fresh = @ + 1], DefineConst(s.fresh, e))]

\* The assignment the solver's definitions extend m to.
RECURSIVE ModelOf(_, _, _)
ModelOf(ds, k, m) ==
    IF k > Len(ds) THEN m
    ELSE ModelOf(ds, k + 1,
            IF ds[k].tag = "DefineConst"
            THEN (ds[k].sym :> Eval(ds[k].exp, m)) @@ m
            ELSE m)

\* What a primop returns: the Result and the solver as it leaves it.
POk(v, s) == [res |-> [tag |-> "Ok", val |-> v], solver |-> s]
PErr(err, s) == [res |-> [tag |-> "Err", err |-> err], solver |-> s]
PPanic(s) == [res |-> [tag |-> "Panic"], solver |-> s]
ErrType == [kind |-> "Type"]
ErrUnimplemented == [kind |-> "Unimplemented"]
ErrSymbolicLength == [kind |-> "SymbolicLength"]
ErrAssertionFailed(message) == [kind |-> "AssertionFailed", message |-> message]

\* `.into()` of a define_const: Ok(Val::Symbolic(sym)).
PDefine(s, e) == POk(VSymbolic(define_const(s, e).sym), define_const(s, e).solver)

(***************************************************************************)
(* primop.rs:61-120 constants as SMT expressions                           *)
(***************************************************************************)
smt_i128(i) == EBits(FromInt(i, 128))
smt_i64(i) == EBits(FromInt(i, 64))
smt_mask_lower(len, mask_width) == EBits([i \in 1..len |-> i <= mask_width])
smt_zeros(i) == EBits(Zeros(i))
smt_ones(i) == EBits(Ones(i))
\* primop.rs:110-120: Bits64 when the bit-vector converts to a u64.
smt_sbits(bv) == IF Len(bv) <= 64 THEN EBits64(bv) ELSE EBits(bv)

(***************************************************************************)
(* concrete::BV operations that primop.rs calls                            *)
(***************************************************************************)
\* B::slice(from, length): None when the slice leaves the bit-vector.
B_slice(bv, from, length) ==
    IF from + length <= Len(bv) THEN <<[i \in 1..length |-> bv[from + i]]>> ELSE <<>>

\* B::shiftr(n) for n >= 0: a logical shift that keeps the width.
B_shiftr(bv, n) == [i \in DOMAIN bv |-> i + n <= Len(bv) /\ bv[i + n]]

\* B::get_slice_int(length, n, from): `length` bits of the integer n,
\* taken from bit `from` on.
B_get_slice_int(length, n, from) == [i \in 1..length |-> FromInt(n, 128)[from + i]]

\* The casts `as u32` and `as usize` of a length or an offset; the
\* operands used here are between 0 and 2^31 - 1, where they change nothing.
AsU32(i) == i

(***************************************************************************)
(* primop.rs:122-172 the macros for unary and binary primops               *)
(***************************************************************************)
\* primop.rs:122-132 unary_primop_copy!
unary_primop_copy(x, unwrap, concrete_op(_), smt_op, s) ==
    CASE x.tag = "Symbolic" -> PDefine(s, EOp(smt_op, <<EVar(x.sym)>>))
      [] x.tag = unwrap -> POk(concrete_op(x), s)
      [] OTHER -> PErr(ErrType, s)

\* primop.rs:134-172 binary_primop_copy! and binary_primop!, which differ
\* only in passing the concrete operands by value or by reference.
binary_primop(x, y, unwrap, concrete_op(_, _), smt_op, to_symbolic(_), s) ==
    CASE x.tag = "Symbolic" /\ y.tag = "Symbolic" ->
            PDefine(s, EOp(smt_op, <<EVar(x.sym), EVar(y.sym)>>))
      [] x.tag = "Symbolic" /\ y.tag = unwrap ->
            PDefine(s, EOp(smt_op, <<EVar(x.sym), to_symbolic(y)>>))
      [] x.tag = unwrap /\ y.tag = "Symbolic" ->
            PDefine(s, EOp(smt_op, <<to_symbolic(x), EVar(y.sym)>>))
      [] x.tag = unwrap /\ y.tag = unwrap -> POk(concrete_op(x, y), s)
      [] OTHER -> PErr(ErrType, s)

ToSymI128(x) == smt_i128(x.i)
ToSymI64(x) == smt_i64(x.i)
ToSymBool(x) == EBool(x.b)
ToSymBits(x) == smt_sbits(x.bv)

ConcNotBool(x) == VBool(~x.b)
ConcNotBits(x) == VBits(BvNot(x.bv))
ConcAndBool(x, y) == VBool(x.b /\ y.b)
ConcEqBool(x, y) == VBool(x.b = y.b)
ConcEqInt(x, y) == VBool(x.i = y.i)
ConcLtInt(x, y) == VBool(x.i < y.i)
ConcOpLt(x, y) == VBool(x.i < y.i)
ConcEqBits(x, y) == VBool(x.bv = y.bv)
\* B64 keeps the length of its left operand: the right one is taken at
\* that width.
BvFit(bv, w) == [i \in 1..w |-> i <= Len(bv) /\ bv[i]]
ConcAndBits(x, y) == VBits(BvAnd(x.bv, BvFit(y.bv, Len(x.bv))))
ConcXorBits(x, y) == VBits(BvXor(x.bv, BvFit(y.bv, Len(x.bv))))
ConcAddBits(x, y) == VBits(BvAdd(x.bv, BvFit(y.bv, Len(x.bv))))

\* primop.rs:362 not_bool, 503 not_bits
not_bool(x, s) == unary_primop_copy(x, "Bool", ConcNotBool, "Not", s)
not_bits(x, s) == unary_primop_copy(x, "Bits", ConcNotBits, "Bvnot", s)
\* primop.rs:321 op_lt, 363 and_bool, 365 eq_int, 366 eq_bool, 369 lt_int
op_lt(x, y, s) == binary_primop(x, y, "I64", ConcOpLt, "Bvslt", ToSymI64, s)
and_bool(x, y, s) == binary_primop(x, y, "Bool", ConcAndBool, "And", ToSymBool, s)
eq_int(x, y, s) == binary_primop(x, y, "I128", ConcEqInt, "Eq", ToSymI128, s)
eq_bool(x, y, s) == binary_primop(x, y, "Bool", ConcEqBool, "Eq", ToSymBool, s)
lt_int(x, y, s) == binary_primop(x, y, "I128", ConcLtInt, "Bvslt", ToSymI128, s)
\* primop.rs:501 eq_bits, 504 xor_bits, 506 and_bits, 507 add_bits
eq_bits(x, y, s) == binary_primop(x, y, "Bits", ConcEqBits, "Eq", ToSymBits, s)
xor_bits(x, y, s) == binary_primop(x, y, "Bits", ConcXorBits, "Bvxor", ToSymBits, s)
and_bits(x, y, s) == binary_primop(x, y, "Bits", ConcAndBits, "Bvand", ToSymBits, s)
add_bits(x, y, s) == binary_primop(x, y, "Bits", ConcAddBits, "Bvadd", ToSymBits, s)

(***************************************************************************)
(* primop.rs:709-838 length_bits and the slice family                      *)
(***************************************************************************)
\* primop.rs:709-718: <<len>>, or <<>> for the Type error.
length_bits(bits, s) ==
    CASE bits.tag = "Bits" -> <<Len(bits.bv)>>
      [] bits.tag = "Symbolic" -> solver_length(s, bits.sym)
      [] OTHER -> <<>>

\* primop.rs:735-741: `from` made as wide as the bit-vector it shifts.
SliceShift(bits_length, from) ==
    IF bits_length > 128 THEN EZeroExtend(bits_length - 128, EVar(from))
    ELSE IF bits_length < 128 THEN EExtract(bits_length - 1, 0, EVar(from))
    ELSE EVar(from)

\* primop.rs:749-773: the I128 and I64 arms, which are alike.
SliceConcreteFrom(bits_length, bits, from, slice_length, s) ==
    IF from = 0 /\ AsU32(slice_length) = bits_length
    THEN PDefine(s, bits)
    ELSE PDefine(s, EExtract(AsU32((from + slice_length) - 1), AsU32(from), bits))

\* primop.rs:723-778 slice!
slice_macro(bits_length, bits, from, slice_length, s) ==
    IF ~(AsU32(slice_length) <= bits_length) THEN PPanic(s)
    ELSE CASE slice_length = 0 -> POk(VBits(Zeros(0)), s)
           [] from.tag = "Symbolic" ->
                 PDefine(s, EExtract(AsU32(slice_length) - 1, 0,
                                     EOp("Bvlshr", <<bits, SliceShift(bits_length, from.sym)>>)))
           [] from.tag \in {"I128", "I64"} ->
                 SliceConcreteFrom(bits_length, bits, from.i, slice_length, s)
           [] OTHER -> PErr(ErrType, s)

\* primop.rs:794 and 826: the result for an all-zero bit-vector and an
\* offset that is not of the concrete arm's variant.
SliceOfZero(bits_length, length) == VBits(Zeros(bits_length))

\* primop.rs:780-799
op_slice(bits, from, length, s) ==
    IF length_bits(bits, s) = <<>> THEN PErr(ErrType, s)
    ELSE LET bits_length == length_bits(bits, s)[1]
         IN CASE bits.tag = "Symbolic" -> slice_macro(bits_length, EVar(bits.sym), from, length, s)
              [] bits.tag = "Bits" /\ from.tag = "I64" ->
                    IF B_slice(bits.bv, AsU32(from.i), length) # <<>>
                    THEN POk(VBits(B_slice(bits.bv, AsU32(from.i), length)[1]), s)
                    ELSE PErr(ErrType, s)
              [] bits.tag = "Bits" /\ IsZero(bits.bv) -> POk(SliceOfZero(bits_length, length), s)
              [] bits.tag = "Bits" -> slice_macro(bits_length, smt_sbits(bits.bv), from, length, s)
              [] OTHER -> PErr(ErrType, s)

\* primop.rs:812-825: a concrete slice, and the shifted slice when it
\* leaves the bit-vector.
SliceConcrete(bv, from, length, s) ==
    IF B_slice(bv, AsU32(from), AsU32(length)) # <<>>
    THEN POk(VBits(B_slice(bv, AsU32(from), AsU32(length))[1]), s)
    ELSE IF B_slice(B_shiftr(bv, from), 0, AsU32(length)) # <<>>
    THEN POk(VBits(B_slice(B_shiftr(bv, from), 0, AsU32(length))[1]), s)
    ELSE PErr(ErrType, s)

\* primop.rs:801-834
slice_internal(bits, from, length, s) ==
    IF length_bits(bits, s) = <<>> THEN PErr(ErrType, s)
    ELSE LET bits_length == length_bits(bits, s)[1]
         IN CASE length.tag = "I128" /\ bits.tag = "Symbolic" ->
                    slice_macro(bits_length, EVar(bits.sym), from, length.i, s)
              [] length.tag = "I128" /\ bits.tag = "Bits" /\ from.tag = "I128" ->
                    SliceConcrete(bits.bv, from.i, length.i, s)
              [] length.tag = "I128" /\ bits.tag = "Bits" /\ IsZero(bits.bv) ->
                    POk(SliceOfZero(bits_length, length.i), s)
              [] length.tag = "I128" /\ bits.tag = "Bits" ->
                    slice_macro(bits_length, smt_sbits(bits.bv), from, length.i, s)
              [] length.tag = "Symbolic" -> PErr(ErrSymbolicLength, s)
              [] OTHER -> PErr(ErrType, s)

\* primop.rs:1463-1483
get_slice_int_internal(length, n, from, s) ==
    CASE length.tag = "I128" /\ n.tag = "Symbolic" -> slice_macro(128, EVar(n.sym), from, length.i, s)
      [] length.tag = "I128" /\ n.tag = "I128" ->
            IF from.tag = "I128" /\ length.i <= MAX_WIDTH
            THEN POk(VBits(B_get_slice_int(AsU32(length.i), n.i, AsU32(from.i))), s)
            ELSE slice_macro(128, smt_i128(n.i), from, length.i, s)
      [] length.tag = "I128" -> PErr(ErrType, s)
      [] length.tag = "Symbolic" -> PErr(ErrSymbolicLength, s)
      [] OTHER -> PErr(ErrType, s)

(***************************************************************************)
(* primop.rs:193-245 optimistic_assert and pessimistic_assert              *)
(***************************************************************************)
\* The symbols a solver has declared, and the values of their sorts.
DeclaredSyms(s) == { s.defs[k].sym : k \in { j \in DOMAIN s.defs : s.defs[j].tag = "DeclareConst" } }
SortValues(len) ==
    IF len = <<>> THEN { VBool(TRUE), VBool(FALSE) }
    ELSE { VBits(b) : b \in [1..len[1] -> BOOLEAN] }

\* The assignments to the declared Boolean symbols (the path constraints
\* of the assertion primops are over Booleans).
Assignments(s) ==
    [ { v \in DeclaredSyms(s) : s.lens[v] = <<>> } -> SortValues(<<>>) ]

\* Every assertion the solver holds is true under m.
Satisfies(s, m) ==
    \A k \in DOMAIN s.defs :
        s.defs[k].tag = "Assert" => Eval(s.defs[k].exp, ModelOf(s.defs, 1, m)).b

\* Solver::check_sat_with(e), when the solver decides it.
check_sat_with(s, e) ==
    IF \E m \in Assignments(s) : Satisfies(s, m) /\ Eval(e, ModelOf(s.defs, 1, m)).b
    THEN "Sat" ELSE "Unsat"

ErrZ3Unknown == [kind |-> "Z3Unknown"]

\* primop.rs:228: the formula pessimistic_assert asks the solver about.
PessimisticTest_Plain(v) == EVar(v)
PessimisticTest(v) == EOp("Not", <<EVar(v)>>)

\* primop.rs:193-218; `unknown` says that the solver gives up.
optimistic_assert(x, message, s, unknown) ==
    IF message.tag # "String" THEN PErr(ErrType, s)
    ELSE CASE x.tag = "Symbolic" ->
                 IF unknown THEN PErr(ErrZ3Unknown, s)
                 ELSE IF check_sat_with(s, EVar(x.sym)) = "Sat"
                 THEN POk(VUnit, solver_add(s, DefAssert(EVar(x.sym))))
                 ELSE PErr(ErrAssertionFailed(message.str), s)
           [] x.tag = "Bool" ->
                 IF x.b THEN POk(VUnit, s) ELSE PErr(ErrAssertionFailed(message.str), s)
           [] OTHER -> PErr(ErrType, s)

\* primop.rs:221-245
pessimistic_assert(x, message, s, unknown) ==
    IF message.tag # "String" THEN PErr(ErrType, s)
    ELSE CASE x.tag = "Symbolic" ->
                 IF unknown THEN PErr(ErrZ3Unknown, s)
                 ELSE IF check_sat_with(s, PessimisticTest(x.sym)) = "Sat"
                 THEN PErr(ErrAssertionFailed(message.str), s)
                 ELSE POk(VUnit, s)
           [] x.tag = "Bool" ->
                 IF x.b THEN POk(VUnit, s) ELSE PErr(ErrAssertionFailed(message.str), s)
           [] OTHER -> PErr(ErrType, s)

(***************************************************************************)
(* primop.rs:271-284 op_eq, 1540-1586 eq_anything, 1803-1813 smt_value      *)
(***************************************************************************)
\* primop.rs:1803-1813: <<exp>>, or <<>> for the Type error.
smt_value(v) ==
    CASE v.tag = "I128" -> <<smt_i128(v.i)>>
      [] v.tag = "I64" -> <<smt_i64(v.i)>>
      [] v.tag = "Bits" -> <<smt_sbits(v.bv)>>
      [] v.tag = "Bool" -> <<EBool(v.b)>>
      [] v.tag = "Enum" -> <<EEnum(v.member)>>
      [] v.tag = "Symbolic" -> <<EVar(v.sym)>>
      [] OTHER -> <<>>

\* primop.rs:1540-1586 for operands that are no struct; eq_struct below is
\* the arm for two structs.
eq_anything(lhs, rhs, s) ==
    CASE lhs.tag = "Symbolic" /\ rhs.tag = "Symbolic" ->
            PDefine(s, EOp("Eq", <<EVar(lhs.sym), EVar(rhs.sym)>>))
      [] rhs.tag = "Symbolic" ->
            IF smt_value(lhs) = <<>> THEN PErr(ErrType, s)
            ELSE PDefine(s, EOp("Eq", <<smt_value(lhs)[1], EVar(rhs.sym)>>))
      [] lhs.tag = "Symbolic" ->
            IF smt_value(rhs) = <<>> THEN PErr(ErrType, s)
            ELSE PDefine(s, EOp("Eq", <<EVar(lhs.sym), smt_value(rhs)[1]>>))
      [] lhs.tag = rhs.tag /\ lhs.tag \in {"Bits", "Enum", "Bool", "I128", "I64"} ->
            POk(VBool(lhs = rhs), s)
      [] OTHER -> PErr(ErrType, s)

\* primop.rs:273-281 without the comparison of the lengths.
ListEq_NoLengthCheck(xs, ys, s) ==
    IF Len(xs) = 0 /\ Len(ys) = 0 THEN POk(VBool(TRUE), s)
    ELSE PErr(ErrType, s)

\* primop.rs:273-281
ListEq(xs, ys, s) ==
    IF Len(xs) # Len(ys) THEN POk(VBool(FALSE), s)
    ELSE IF Len(xs) = 0 /\ Len(ys) = 0 THEN POk(VBool(TRUE), s)
    ELSE PErr(ErrType, s)

\* primop.rs:271-284
op_eq(x, y, s) ==
    IF x.tag = "List" /\ y.tag = "List" THEN ListEq(x.elems, y.elems, s)
    ELSE eq_anything(x, y, s)

(***************************************************************************)
(* primop.rs:1489-1491 unimplemented, 2200-2241 variadic_primops           *)
(***************************************************************************)
\* A variadic primop returns the Result and leaves solver and frame.
VRet(r, f) == [res |-> r.res, solver |-> r.solver, frame |-> f]

\* primop.rs:1489-1491 returning unit.
unimplemented_AsUnit(args, s, f) == VRet(POk(VUnit, s), f)

\* primop.rs:1489-1491
unimplemented(args, s, f) == VRet(PErr(ErrUnimplemented, s), f)

\* primop.rs:836-838 and 1485-1487
slice(args, s, f) == VRet(slice_internal(args[1], args[2], args[3], s), f)
get_slice_int(args, s, f) == VRet(get_slice_int_internal(args[1], args[2], args[3], s), f)

UnimplementedNames ==
    { "%string->%real", "neg_real", "mult_real", "sub_real", "add_real", "div_real",
      "sqrt_real", "abs_real", "round_down", "round_up", "to_real", "eq_real", "lt_real",
      "gt_real", "lteq_real", "gteq_real", "real_power", "print_real", "prerr_real",
      "undefined_real" }

\* primop.rs:2200-2241: the function each name is registered with.
variadic_primops ==
    [name \in UnimplementedNames |-> "unimplemented"]
    @@ ("slice" :> "slice") @@ ("vector_subrange" :> "subrange")
    @@ ("vector_update" :> "vector_update")
    @@ ("vector_update_subrange" :> "vector_update_subrange")
    @@ ("bitvector_update" :> "bitvector_update") @@ ("set_slice" :> "set_slice")
    @@ ("get_slice_int" :> "get_slice_int") @@ ("set_slice_int" :> "set_slice_int")
    @@ ("platform_read_mem" :> "read_mem") @@ ("platform_read_memt" :> "read_memt")
    @@ ("platform_write_mem" :> "write_mem") @@ ("platform_write_memt" :> "write_memt")
    @@ ("platform_write_mem_ea" :> "write_mem_ea")
    @@ ("platform_cache_maintenance" :> "cache_maintenance")
    @@ ("elf_entry" :> "elf_entry") @@ ("ite" :> "ite")
    @@ ("mark_register_pair" :> "mark_register_pair")

\* The call of the function registered under `name`.
CallVariadic(name, args, s, f) ==
    CASE variadic_primops[name] = "unimplemented" -> unimplemented(args, s, f)
      [] variadic_primops[name] = "slice" -> slice(args, s, f)
      [] variadic_primops[name] = "get_slice_int" -> get_slice_int(args, s, f)

(***************************************************************************)
(* The primops applied to one call each                                    *)
(***************************************************************************)
\* The width of the symbolic bit-vector the solver has declared, and the
\* longest slice asked for.
SymWidth == 4
MaxSliceLen == 5

\* The symbols the solver has declared before the call: v0 a bit-vector,
\* v1 a 128-bit integer, v2 and v3 Booleans.
PrimopLens == << <<SymWidth>>, <<128>>, <<>>, <<>> >>

\* The assertions the path holds before an assertion primop is called.
PathConstraints ==
    { <<>>,
      <<DefAssert(EVar(2))>>,
      <<DefAssert(EOp("Not", <<EVar(2)>>))>>,
      <<DefAssert(EOp("Or", <<EVar(2), EVar(3)>>))>>,
      <<DefAssert(EVar(2)), DefAssert(EOp("Not", <<EVar(2)>>))>> }

SolverOnPath(path) == [SolverWith(PrimopLens) EXCEPT !.defs = @ \o path]

VU32(n) == [tag |-> "U32", i |-> n]

BitsOperands ==
    { VBits(FromNat(n, SymWidth)) : n \in {0, 5, 10} }
    \cup { VBits(Zeros(MAX_WIDTH)), VBits(FromNat(43981, 16)) }

Operands ==
    BitsOperands
    \cup { VBool(TRUE), VBool(FALSE), VI64(0), VI64(3), VI128(0), VI128(3),
           VSymbolic(0), VSymbolic(1), VSymbolic(2), VUnit }

Offsets == { VI64(0), VI64(1), VI128(0), VI128(1), VI128(4), VSymbolic(1), VBool(TRUE) }
Lengths == { VI128(n) : n \in 0..MaxSliceLen } \cup { VI128(8), VI128(MAX_WIDTH + 1), VSymbolic(1), VI64(1) }

Lists ==
    { VList(l) : l \in { <<>>, <<VBool(TRUE)>>, <<VBool(FALSE)>>, <<VI128(3)>>,
                         <<VBool(TRUE), VBool(TRUE)>>, <<VI128(0), VI128(3)>>,
                         <<VI128(0), VI128(3), VI128(3)>> } }

Messages == { VString("assertion failed"), VString(""), VBool(TRUE) }

UnaryNames == { "not_bool", "not_bits" }
BinaryNames ==
    { "op_lt", "and_bool", "eq_int", "eq_bool", "lt_int", "eq_bits", "xor_bits", "and_bits",
      "add_bits" }
SliceNames == { "op_slice", "slice", "get_slice_int" }

PCall(fn, args, path) == [fn |-> fn, args |-> args, path |-> path]

PrimopCalls ==
    { PCall(fn, <<x>>, <<>>) : fn \in UnaryNames, x \in Operands }
    \cup { PCall(fn, <<x, y>>, <<>>) : fn \in BinaryNames, x \in Operands, y \in Operands }
    \cup { PCall("op_slice", <<b, o, VU32(n)>>, <<>>) :
               b \in BitsOperands \cup { VSymbolic(0), VI128(3) }, o \in Offsets,
               n \in (0..MaxSliceLen) \cup {8} }
    \cup { PCall("slice", <<b, o, l>>, <<>>) :
               b \in BitsOperands \cup { VSymbolic(0), VI128(3) }, o \in Offsets, l \in Lengths }
    \cup { PCall("get_slice_int", <<l, n, o>>, <<>>) :
               l \in Lengths, n \in { VI128(0), VI128(5), VI128(-1), VSymbolic(1), VBool(TRUE) },
               o \in Offsets }
    \cup { PCall(fn, <<x, m>>, path) :
               fn \in { "optimistic_assert", "pessimistic_assert" },
               x \in { VBool(TRUE), VBool(FALSE), VSymbolic(2), VSymbolic(3), VI128(0) },
               m \in Messages, path \in PathConstraints }
    \cup { PCall("op_eq", <<x, y>>, <<>>) : x \in Lists \cup Operands, y \in Lists \cup Operands }
    \cup { PCall(fn, args, <<>>) :
               fn \in UnimplementedNames,
               args \in { <<>>, <<VString("1.5")>>, <<VI128(3)>>, <<VSymbolic(1), VI128(0)>> } }

\* The solver and the frame a call starts from.
InitialSolver(c) == SolverOnPath(c.path)
InitialFrame == [pc |-> 0]

InitPrimop ==
    /\ IRIdle /\ FsInit /\ TmpIdle /\ LitmusIdle
    /\ call \in PrimopCalls
    /\ model = <<>>
    /\ solver = InitialSolver(call)
    /\ frame = InitialFrame
    /\ ret = [tag |-> "None"]
    /\ cpc = "ready"

ApplyUnary(fn, x, s) ==
    CASE fn = "not_bool" -> not_bool(x, s)
      [] fn = "not_bits" -> not_bits(x, s)

ApplyBinary(fn, x, y, s) ==
    CASE fn = "op_lt" -> op_lt(x, y, s)
      [] fn = "and_bool" -> and_bool(x, y, s)
      [] fn = "eq_int" -> eq_int(x, y, s)
      [] fn = "eq_bool" -> eq_bool(x, y, s)
      [] fn = "lt_int" -> lt_int(x, y, s)
      [] fn = "eq_bits" -> eq_bits(x, y, s)
      [] fn = "xor_bits" -> xor_bits(x, y, s)
      [] fn = "and_bits" -> and_bits(x, y, s)
      [] fn = "add_bits" -> add_bits(x, y, s)

\* The call returns r.
PrimopReturns(r) ==
    /\ ret' = r.res
    /\ solver' = r.solver
    /\ cpc' = "done"
    /\ UNCHANGED <<call, model, frame>>
    /\ UNCHANGED <<irVars, fsVars, tmpVars, litmusVars>>

CallUnary ==
    /\ cpc = "ready" /\ call.fn \in UnaryNames
    /\ PrimopReturns(ApplyUnary(call.fn, call.args[1], solver))

CallBinary ==
    /\ cpc = "ready" /\ call.fn \in BinaryNames
    /\ PrimopReturns(ApplyBinary(call.fn, call.args[1], call.args[2], solver))

CallOpSlice ==
    /\ cpc = "ready" /\ call.fn = "op_slice"
    /\ PrimopReturns(op_slice(call.args[1], call.args[2], call.args[3].i, solver))

CallOptimisticAssert ==
    /\ cpc = "ready" /\ call.fn = "optimistic_assert"
    /\ \E unknown \in BOOLEAN :
          PrimopReturns(optimistic_assert(call.args[1], call.args[2], solver, unknown))

CallPessimisticAssert ==
    /\ cpc = "ready" /\ call.fn = "pessimistic_assert"
    /\ \E unknown \in BOOLEAN :
          PrimopReturns(pessimistic_assert(call.args[1], call.args[2], solver, unknown))

CallOpEq ==
    /\ cpc = "ready" /\ call.fn = "op_eq"
    /\ PrimopReturns(op_eq(call.args[1], call.args[2], solver))

\* A primop of the variadic table, which is handed the frame as well.
CallVariadicPrimop ==
    /\ cpc = "ready" /\ call.fn \in DOMAIN variadic_primops
    /\ LET r == CallVariadic(call.fn, call.args, solver, frame)
       IN /\ ret' = r.res
          /\ solver' = r.solver
          /\ frame' = r.frame
          /\ cpc' = "done"
          /\ UNCHANGED <<call, model>>
          /\ UNCHANGED <<irVars, fsVars, tmpVars, litmusVars>>

NextPrimop ==
    \/ CallUnary
    \/ CallBinary
    \/ CallOpSlice
    \/ CallOptimisticAssert
    \/ CallPessimisticAssert
    \/ CallOpEq
    \/ CallVariadicPrimop

SpecPrimop == InitPrimop /\ [][NextPrimop]_vars

(***************************************************************************)
(* Concrete operands                                                       *)
(***************************************************************************)
IsConcrete(v) == v.tag # "Symbolic"

\* No bit-vector operand and no requested length is above BV::MAX_WIDTH.
WithinMaxWidth(v) ==
    CASE v.tag = "Bits" -> Len(v.bv) <= MAX_WIDTH
      [] v.tag \in {"I128", "I64", "U32"} -> v.i <= MAX_WIDTH
      [] OTHER -> TRUE

\* C12: a call of a macro-generated unary or binary primop or of op_slice,
\* slice or get_slice_int whose operands are all concrete and within
\* BV::MAX_WIDTH, when it succeeds, has returned a concrete value and has
\* left the solver as it was.
C12_ConcreteStaysConcrete ==
    (/\ cpc = "done"
     /\ call.fn \in UnaryNames \cup BinaryNames \cup SliceNames
     /\ \A k \in DOMAIN call.args : IsConcrete(call.args[k]) /\ WithinMaxWidth(call.args[k])
     /\ ret.tag = "Ok") =>
        /\ IsConcrete(ret.val)
        /\ solver = InitialSolver(call)

\* The call was op_slice or slice of an all-zero concrete bit-vector at a
\* symbolic offset, for a length the bit-vector has.
SliceOfZeroAtSymbolic ==
    /\ call.fn \in {"op_slice", "slice"}
    /\ call.args[1].tag = "Bits" /\ IsZero(call.args[1].bv)
    /\ call.args[2].tag = "Symbolic"
    /\ call.args[3].tag \in {"U32", "I128"}
    /\ call.args[3].i <= Len(call.args[1].bv)

\* C13: op_slice and slice_internal, given an all-zero concrete bit-vector
\* and a symbolic offset, return the all-zero bit-vector of the requested
\* slice length and leave the solver as it was.
C13_ZeroSliceHasSliceLength ==
    (cpc = "done" /\ SliceOfZeroAtSymbolic) =>
        /\ ret = [tag |-> "Ok", val |-> VBits(Zeros(call.args[3].i))]
        /\ solver = InitialSolver(call)

(***************************************************************************)
(* primop.rs:1164-1282 set_slice                                           *)
(***************************************************************************)
\* B::set_slice(n, update): the bits n .. n + Len(update) - 1 replaced.
B_set_slice(bv, n, update) ==
    [i \in DOMAIN bv |-> IF n < i /\ i <= n + Len(update) THEN update[i - n] ELSE bv[i]]

\* primop.rs:1173-1177: the update made as wide as the bit-vector.
SetSliceUpdate(bits_length, update_length, update) ==
    IF bits_length = update_length THEN update
    ELSE EZeroExtend(bits_length - update_length, update)

\* primop.rs:1178-1184: the offset made as wide as the bit-vector.
SetSliceShift(bits_length, n) ==
    IF bits_length < 128 THEN EExtract(bits_length - 1, 0, n)
    ELSE IF bits_length > 128 THEN EZeroExtend(bits_length - 128, n)
    ELSE n

\* primop.rs:1191 with the mask left where it is.
SetSliceMask_Unshifted(mask_lower, shift) == mask_lower

\* primop.rs:1191: the mask of the bits to replace.
SetSliceMask(mask_lower, shift) == EOp("Bvshl", <<mask_lower, shift>>)

\* primop.rs:1164-1198 set_slice!
set_slice_macro(bits_length, update_length, bits, n, update, s) ==
    IF bits_length = 0 THEN POk(VBits(Zeros(0)), s)
    ELSE IF update_length = 0 THEN PDefine(s, bits)
    ELSE LET mask_lower == smt_mask_lower(bits_length, update_length)
             upd == SetSliceUpdate(bits_length, update_length, update)
             shift == SetSliceShift(bits_length, n)
         IN PDefine(s, EOp("Bvor",
                 <<EOp("Bvand", <<bits, EOp("Bvnot", <<SetSliceMask(mask_lower, shift)>>)>>),
                   EOp("Bvshl", <<upd, shift>>)>>))

\* primop.rs:1201-1225 set_slice_n0!
set_slice_n0(bits_length, update_length, bits, update, s) ==
    IF bits_length = 0 THEN POk(VBits(Zeros(0)), s)
    ELSE IF update_length = 0 THEN PDefine(s, bits)
    ELSE LET mask_lower == smt_mask_lower(bits_length, update_length)
             upd == SetSliceUpdate(bits_length, update_length, update)
         IN PDefine(s, EOp("Bvor",
                 <<EOp("Bvand", <<bits, EOp("Bvnot", <<mask_lower>>)>>), upd>>))

\* The expression for an operand that is Symbolic or Bits.
SetSliceExp(v) == IF v.tag = "Symbolic" THEN EVar(v.sym) ELSE smt_sbits(v.bv)

\* primop.rs:1227-1276
set_slice_internal(bits, n, update, s) ==
    IF length_bits(bits, s) = <<>> \/ length_bits(update, s) = <<>> THEN PErr(ErrType, s)
    ELSE LET bits_length == length_bits(bits, s)[1]
             update_length == length_bits(update, s)[1]
         IN CASE bits.tag = "Bits" /\ n.tag = "I128" /\ update.tag = "Bits" ->
                    POk(VBits(B_set_slice(bits.bv, AsU32(n.i), update.bv)), s)
              [] n.tag = "Symbolic" ->
                    set_slice_macro(bits_length, update_length, SetSliceExp(bits), EVar(n.sym),
                                    SetSliceExp(update), s)
              [] n.tag = "I128" /\ n.i = 0 ->
                    IF bits.tag = "Symbolic" /\ update.tag = "Bits" /\ bits_length = update_length
                    THEN POk(VBits(update.bv), s)
                    ELSE set_slice_n0(bits_length, update_length, SetSliceExp(bits),
                                      SetSliceExp(update), s)
              [] n.tag = "I128" ->
                    set_slice_macro(bits_length, update_length, SetSliceExp(bits), smt_i128(n.i),
                                    SetSliceExp(update), s)
              [] OTHER -> PErr(ErrType, s)

\* primop.rs:1278-1282
set_slice(args, s, f) == VRet(set_slice_internal(args[3], args[4], args[5], s), f)

\* The widest bit-vector set_slice is applied to, and the largest offset.
MaxSetWidth == 3
MaxSetOffset == 3

BitVectors(w) == [1..w -> BOOLEAN]

\* The values of the three operands, and which of them are symbolic: v0
\* stands for bits, v1 for n, v2 for update.  A symbol has at least one bit.
SetSliceCases ==
    { [vals |-> <<VBits(b), VBits(FromNat(n, 128)), VBits(u)>>, syms |-> y] :
        b \in UNION { BitVectors(w) : w \in 0..MaxSetWidth },
        n \in 0..MaxSetOffset,
        u \in UNION { BitVectors(w) : w \in 0..MaxSetWidth },
        y \in SUBSET {0, 1, 2} }

SetSliceOperand(c, k) ==
    IF k \in c.syms THEN VSymbolic(k)
    ELSE IF k = 1 THEN VI128(ToNat(c.vals[2].bv))
    ELSE c.vals[k + 1]

SetSliceCall(c) ==
    [fn |-> "set_slice",
     args |-> <<VI128(Len(c.vals[1].bv)), VI128(Len(c.vals[3].bv)),
                SetSliceOperand(c, 0), SetSliceOperand(c, 1), SetSliceOperand(c, 2)>>,
     path |-> <<>>]

InitSetSlice ==
    /\ IRIdle /\ FsInit /\ TmpIdle /\ LitmusIdle
    /\ \E c \in SetSliceCases :
          /\ \A k \in c.syms : Len(c.vals[k + 1].bv) >= 1
          /\ call = SetSliceCall(c)
          /\ model = [k \in 0..2 |-> c.vals[k + 1]]
          /\ solver = SolverWith([k \in 1..3 |-> <<Len(c.vals[k].bv)>>])
    /\ frame = InitialFrame
    /\ ret = [tag |-> "None"]
    /\ cpc = "ready"

CallSetSlice ==
    /\ cpc = "ready" /\ call.fn = "set_slice"
    /\ LET r == set_slice(call.args, solver, frame)
       IN /\ ret' = r.res
          /\ solver' = r.solver
          /\ frame' = r.frame
          /\ cpc' = "done"
          /\ UNCHANGED <<call, model>>
          /\ UNCHANGED <<irVars, fsVars, tmpVars, litmusVars>>

NextSetSlice == CallSetSlice

SpecSetSlice == InitSetSlice /\ [][NextSetSlice]_vars

\* The value of v under the assignment the solver's definitions extend
\* `model` to.
ValueUnder(v) ==
    IF v.tag = "Symbolic" THEN ModelOf(solver.defs, 1, model)[v.sym] ELSE v

\* The offset and the slice lie within the bit-vector.
SetSliceInRange == ToNat(model[1].bv) + Len(model[2].bv) <= Len(model[0].bv)

SomeOperandSymbolic == \E k \in 3..5 : call.args[k].tag = "Symbolic"

\* C14: when set_slice is called with some operand symbolic and the slice
\* lies within the bit-vector, the value returned evaluates, under the
\* assignment, to what B::set_slice returns for the operands' values; with
\* offset 0 and equal lengths that value is the update.
C14_SetSliceRefinesConcrete ==
    (cpc = "done" /\ call.fn = "set_slice" /\ SomeOperandSymbolic /\ SetSliceInRange) =>
        /\ ret.tag = "Ok"
        /\ ValueUnder(ret.val) =
              VBits(B_set_slice(model[0].bv, ToNat(model[1].bv), model[2].bv))
        /\ (ToNat(model[1].bv) = 0 /\ Len(model[2].bv) = Len(model[0].bv)) =>
              ValueUnder(ret.val) = model[2]

\* C14 witness: a symbolic update was written at a non-zero offset into a
\* wider bit-vector, and changed it.
C14_Witness ==
    /\ cpc = "done" /\ call.fn = "set_slice" /\ SetSliceInRange
    /\ call.args[5].tag = "Symbolic"
    /\ ToNat(model[1].bv) > 0
    /\ ret.tag = "Ok" /\ ret.val.tag = "Symbolic"
    /\ ValueUnder(ret.val) # model[0]

(***************************************************************************)
(* primop.rs:2004-2045 count_leading_zeros                                 *)
(***************************************************************************)
\* B::leading_zeros(): the number of zero bits above the highest bit set.
B_leading_zeros(bv) ==
    IF IsZero(bv) THEN Len(bv)
    ELSE Len(bv) - (CHOOSE i \in DOMAIN bv : bv[i] /\ \A j \in DOMAIN bv : j > i => ~bv[j])

\* primop.rs:2015 with the halves taken alike.
ClzTopLen_Half(len) == len \div 2

\* primop.rs:2014-2015: the widths of the lower and the upper half.
ClzLowLen(len) == len \div 2
ClzTopLen(len) == len - ClzLowLen(len)

\* primop.rs:2006-2031: the symbol defined, and the solver after it.
RECURSIVE smt_clz(_, _, _)
smt_clz(bv, len, s) ==
    IF len = 1
    THEN define_const(s, EOp("Ite", <<EOp("Eq", <<EVar(bv), smt_zeros(1)>>), smt_i128(1), smt_i128(0)>>))
    ELSE LET low_len == ClzLowLen(len)
             top_len == ClzTopLen(len)
             top == define_const(s, EExtract(len - 1, low_len, EVar(bv)))
             low == define_const(top.solver, EExtract(low_len - 1, 0, EVar(bv)))
             top_bits_are_zero == EOp("Eq", <<EVar(top.sym), smt_zeros(top_len)>>)
             top_clz == smt_clz(top.sym, top_len, low.solver)
             low_clz == smt_clz(low.sym, low_len, top_clz.solver)
         IN define_const(low_clz.solver,
                EOp("Ite", <<top_bits_are_zero,
                             EOp("Bvadd", <<smt_i128(top_len), EVar(low_clz.sym)>>),
                             EVar(top_clz.sym)>>))

\* primop.rs:2033-2045
count_leading_zeros(bv, s) ==
    CASE bv.tag = "Bits" -> POk(VI128(B_leading_zeros(bv.bv)), s)
      [] bv.tag = "Symbolic" ->
            IF solver_length(s, bv.sym) # <<>>
            THEN POk(VSymbolic(smt_clz(bv.sym, solver_length(s, bv.sym)[1], s).sym),
                     smt_clz(bv.sym, solver_length(s, bv.sym)[1], s).solver)
            ELSE PErr(ErrType, s)
      [] OTHER -> PErr(ErrType, s)

\* The widest bit-vector whose leading zeros are counted.
MaxClzWidth == 6

\* The bit-vector v0 stands for, and the operand: the symbol, the value, or
\* a value that is no bit-vector.
ClzCases ==
    { [val |-> b, arg |-> a] :
        b \in UNION { BitVectors(w) : w \in 1..MaxClzWidth },
        a \in { "symbolic", "concrete", "bool" } }

InitClz ==
    /\ IRIdle /\ FsInit /\ TmpIdle /\ LitmusIdle
    /\ \E c \in ClzCases :
          /\ call = [fn |-> "count_leading_zeros",
                     args |-> <<CASE c.arg = "symbolic" -> VSymbolic(0)
                                  [] c.arg = "concrete" -> VBits(c.val)
                                  [] c.arg = "bool" -> VBool(c.val[1])>>,
                     path |-> <<>>]
          /\ model = [k \in {0} |-> VBits(c.val)]
          /\ solver = SolverWith(<< <<Len(c.val)>> >>)
    /\ frame = InitialFrame
    /\ ret = [tag |-> "None"]
    /\ cpc = "ready"

CallCountLeadingZeros ==
    /\ cpc = "ready" /\ call.fn = "count_leading_zeros"
    /\ PrimopReturns(count_leading_zeros(call.args[1], solver))

NextClz == CallCountLeadingZeros

SpecClz == InitClz /\ [][NextClz]_vars

\* C15: count_leading_zeros of a symbolic bit-vector of width w >= 1 returns
\* a symbol whose value, under every assignment, is the number of leading
\* zeros of the bit-vector assigned, which is what the concrete path
\* returns for that bit-vector.
C15_SymbolicClzCountsLeadingZeros ==
    (cpc = "done" /\ call.fn = "count_leading_zeros" /\ call.args[1].tag = "Symbolic") =>
        /\ ret.tag = "Ok" /\ ret.val.tag = "Symbolic"
        /\ ValueUnder(ret.val) = VBits(FromNat(B_leading_zeros(model[0].bv), 128))
        /\ count_leading_zeros(model[0], solver).res =
              [tag |-> "Ok", val |-> VI128(ToNat(ValueUnder(ret.val).bv))]

\* C15 witness: the symbolic count was made for a bit-vector of odd width
\* whose upper half is zero and whose lower half is not.
C15_Witness ==
    /\ cpc = "done" /\ call.fn = "count_leading_zeros" /\ call.args[1].tag = "Symbolic"
    /\ Len(model[0].bv) = 5
    /\ ret.tag = "Ok"
    /\ ToNat(ValueUnder(ret.val).bv) = 4

(***************************************************************************)
(* primop.rs:1988-2002 align_bits                                          *)
(***************************************************************************)
\* i128::wrapping_div and i128::wrapping_mul for operands whose result is
\* within TLC's integers; wrapping_div truncates towards zero.
WrappingDiv(a, b) ==
    IF (a >= 0) = (b >= 0)
    THEN (IF a >= 0 THEN a ELSE -a) \div (IF b >= 0 THEN b ELSE -b)
    ELSE -((IF a >= 0 THEN a ELSE -a) \div (IF b >= 0 THEN b ELSE -b))
ConcUdivInt(x, y) == VI128(WrappingDiv(x.i, y.i))
ConcMultInt(x, y) == VI128(x.i * y.i)

\* primop.rs:402; the concrete division panics when the divisor is zero.
udiv_int(x, y, s) ==
    IF x.tag = "I128" /\ y.tag = "I128" /\ y.i = 0 THEN PPanic(s)
    ELSE binary_primop(x, y, "I128", ConcUdivInt, "Bvudiv", ToSymI128, s)

\* primop.rs:394
mult_int(x, y, s) == binary_primop(x, y, "I128", ConcMultInt, "Bvmul", ToSymI128, s)

\* primop.rs:891-904
sail_unsigned(bits, s) ==
    CASE bits.tag = "Bits" -> POk(VI128(ToNat(bits.bv)), s)
      [] bits.tag = "Symbolic" ->
            IF solver_length(s, bits.sym) = <<>> THEN PErr(ErrType, s)
            ELSE IF ~(solver_length(s, bits.sym)[1] < 128) THEN PPanic(s)
            ELSE PDefine(s, EZeroExtend(128 - solver_length(s, bits.sym)[1], EVar(bits.sym)))
      [] OTHER -> PErr(ErrType, s)

\* primop.rs:1992: the guard of the fast path, with the test
\* `alignment & (alignment - 1) == 0` on the 128 bits of the integer.
AlignFastPath(bv, alignment, s) ==
    /\ bv.tag = "Symbolic" /\ alignment.tag = "I128"
    /\ length_bits(bv, s) # <<>>
    /\ length_bits(bv, s)[1] <= 64
    /\ IsZero(BvAnd(FromInt(alignment.i, 128), FromInt(alignment.i - 1, 128)))

\* primop.rs:1993: `(alignment as u64) - 1` overflows when the low 64 bits
\* of the alignment are zero.
AlignMaskOverflows(alignment) == IsZero(FromInt(alignment.i, 64))

\* primop.rs:1993: !B::new((alignment as u64) - 1, bv_len), the
\* subtraction wrapping.
AlignMask(alignment, bv_len) ==
    BvNot(BvFit(BvSub(FromInt(alignment.i, 64), FromInt(1, 64)), bv_len))

\* primop.rs:1996-2000: the general path.
AlignGeneral(bv, alignment, bv_len, s) ==
    LET x == sail_unsigned(bv, s)
    IN IF x.res.tag # "Ok" THEN x
       ELSE LET q == udiv_int(x.res.val, alignment, x.solver)
            IN IF q.res.tag # "Ok" THEN q
               ELSE LET aligned_x == mult_int(alignment, q.res.val, q.solver)
                    IN IF aligned_x.res.tag # "Ok" THEN aligned_x
                       ELSE get_slice_int_internal(VI128(bv_len), aligned_x.res.val, VI128(0),
                                                   aligned_x.solver)

\* primop.rs:1988-2002; `build` is "debug", where an arithmetic overflow
\* panics, or "release", where it wraps.
align_bits(bv, alignment, s, build) ==
    IF length_bits(bv, s) = <<>> THEN PErr(ErrType, s)
    ELSE LET bv_len == length_bits(bv, s)[1]
         IN IF AlignFastPath(bv, alignment, s)
            THEN IF AlignMaskOverflows(alignment) /\ build = "debug" THEN PPanic(s)
                 ELSE PDefine(s, EOp("Bvand", <<EVar(bv.sym), smt_sbits(AlignMask(alignment, bv_len))>>))
            ELSE AlignGeneral(bv, alignment, bv_len, s)

\* The widest bit-vector aligned, and the alignments asked for.
MaxAlignWidth == 4
Alignments == { 0, 1, 2, 3, 4, 8, 16 }
Builds == { "debug", "release" }

\* The bit-vector v0 stands for, the alignment v1 stands for, and which
\* of the two operands are symbolic.
AlignCases ==
    { [val |-> b, a |-> a, syms |-> y] :
        b \in UNION { BitVectors(w) : w \in 1..MaxAlignWidth },
        a \in Alignments,
        y \in { {}, {0}, {0, 1} } }

InitAlign ==
    /\ IRIdle /\ FsInit /\ TmpIdle /\ LitmusIdle
    /\ \E c \in AlignCases :
          /\ call = [fn |-> "align_bits",
                     args |-> <<IF 0 \in c.syms THEN VSymbolic(0) ELSE VBits(c.val),
                                IF 1 \in c.syms THEN VSymbolic(1) ELSE VI128(c.a)>>,
                     path |-> <<>>]
          /\ model = [k \in 0..1 |-> IF k = 0 THEN VBits(c.val) ELSE VBits(FromNat(c.a, 128))]
          /\ solver = SolverWith(<< <<Len(c.val)>>, <<128>> >>)
    /\ frame = InitialFrame
    /\ ret = [tag |-> "None"]
    /\ cpc = "ready"

CallAlignBits ==
    /\ cpc = "ready" /\ call.fn = "align_bits"
    /\ \E build \in Builds :
          PrimopReturns(align_bits(call.args[1], call.args[2], solver, build))

NextAlign == CallAlignBits

SpecAlign == InitAlign /\ [][NextAlign]_vars

IsPowerOfTwo(a) == \E k \in 0..30 : a = 2^k

\* C16: when align_bits has taken the fast path, the alignment a is a power
\* of two and the width is at most 64, and the value returned is
\* a * (x / a), unsigned and truncated to the width of x.
C16_FastPathOnlyForPowersOfTwo ==
    (cpc = "done" /\ call.fn = "align_bits"
       /\ AlignFastPath(call.args[1], call.args[2], InitialSolver(call))) =>
        /\ IsPowerOfTwo(call.args[2].i)
        /\ Len(model[0].bv) <= 64
        /\ ret.tag = "Ok"
        /\ ValueUnder(ret.val) =
              VBits(FromNat(call.args[2].i * (ToNat(model[0].bv) \div call.args[2].i),
                            Len(model[0].bv)))

(***************************************************************************)
(* Claims about the assertion primops, op_eq and the real-number primops   *)
(***************************************************************************)
AssertNames == { "optimistic_assert", "pessimistic_assert" }

\* The call was an assertion primop and returned AssertionFailed.
AssertionFailedReturned ==
    /\ cpc = "done" /\ call.fn \in AssertNames
    /\ ret.tag = "Err" /\ ret.err.kind = "AssertionFailed"

\* The error carries the message operand.
CarriesMessage == call.args[2].tag = "String" /\ ret.err.message = call.args[2].str

\* What the solver decides about the condition x and about its negation
\* under the path constraints the call started from.
CanHold(x) == check_sat_with(InitialSolver(call), EVar(x.sym)) = "Sat"
CanFail(x) == check_sat_with(InitialSolver(call), EOp("Not", <<EVar(x.sym)>>)) = "Sat"

\* C17 as stated: an assertion primop returns AssertionFailed on a symbolic
\* condition only when the condition cannot hold under the path
\* constraints, and on a concrete condition only when it is false; the
\* error carries the message.
C17_FailsOnlyWhenConditionCannotHold ==
    AssertionFailedReturned =>
        /\ CarriesMessage
        /\ call.args[1].tag \in {"Symbolic", "Bool"}
        /\ call.args[1].tag = "Symbolic" => ~CanHold(call.args[1])
        /\ call.args[1].tag = "Bool" => ~call.args[1].b

\* C17 amended: optimistic_assert returns AssertionFailed on a symbolic
\* condition only when the condition cannot hold, pessimistic_assert only
\* when the condition can fail (whether or not it can also hold); both
\* return it on a concrete condition only when it is false, and the error
\* carries the message.  When they return Ok on a symbolic condition, the
\* condition can hold (optimistic) or cannot fail (pessimistic).
C17_FailsPerKindOfAssert ==
    /\ AssertionFailedReturned =>
          /\ CarriesMessage
          /\ call.args[1].tag \in {"Symbolic", "Bool"}
          /\ (call.args[1].tag = "Symbolic" /\ call.fn = "optimistic_assert") =>
                ~CanHold(call.args[1])
          /\ (call.args[1].tag = "Symbolic" /\ call.fn = "pessimistic_assert") =>
                CanFail(call.args[1])
          /\ call.args[1].tag = "Bool" => ~call.args[1].b
    /\ (cpc = "done" /\ call.fn \in AssertNames /\ ret.tag = "Ok"
          /\ call.args[1].tag = "Symbolic") =>
          IF call.fn = "optimistic_assert" THEN CanHold(call.args[1])
          ELSE ~CanFail(call.args[1])

\* C17 witness: pessimistic_assert has returned AssertionFailed with the
\* message for a symbolic condition that can hold and can fail.
C17_Witness ==
    /\ AssertionFailedReturned
    /\ call.fn = "pessimistic_assert"
    /\ call.args[1].tag = "Symbolic"
    /\ CanHold(call.args[1]) /\ CanFail(call.args[1])
    /\ ret.err.message = "assertion failed"

BothLists == call.args[1].tag = "List" /\ call.args[2].tag = "List"

\* C18 as stated: op_eq on two lists returns Bool(true) when both are empty
\* and a Type error whenever both are non-empty.
C18_NonEmptyListsAreTypeError ==
    (cpc = "done" /\ call.fn = "op_eq" /\ BothLists) =>
        /\ (Len(call.args[1].elems) = 0 /\ Len(call.args[2].elems) = 0) =>
              ret = [tag |-> "Ok", val |-> VBool(TRUE)]
        /\ (Len(call.args[1].elems) > 0 /\ Len(call.args[2].elems) > 0) =>
              ret = [tag |-> "Err", err |-> ErrType]

\* C18 amended: op_eq on two lists returns Bool(false) when their lengths
\* differ, Bool(true) when both are empty, and a Type error when they are
\* non-empty and of the same length, whatever their elements; the solver
\* is left as it was.
C18_ListsOfEqualLengthAreTypeError ==
    (cpc = "done" /\ call.fn = "op_eq" /\ BothLists) =>
        /\ ret = IF Len(call.args[1].elems) # Len(call.args[2].elems)
                 THEN [tag |-> "Ok", val |-> VBool(FALSE)]
                 ELSE IF Len(call.args[1].elems) = 0
                 THEN [tag |-> "Ok", val |-> VBool(TRUE)]
                 ELSE [tag |-> "Err", err |-> ErrType]
        /\ solver = InitialSolver(call)

\* C18 witness: op_eq has compared two non-empty lists of different
\* lengths and returned Bool(false).
C18_Witness ==
    /\ cpc = "done" /\ call.fn = "op_eq" /\ BothLists
    /\ Len(call.args[1].elems) > 0
    /\ Len(call.args[2].elems) > Len(call.args[1].elems)
    /\ ret = [tag |-> "Ok", val |-> VBool(FALSE)]

\* The real-number primops.
RealPrimopNames ==
    { "%string->%real", "neg_real", "mult_real", "sub_real", "add_real", "div_real",
      "sqrt_real", "abs_real", "round_down", "round_up", "to_real", "eq_real", "lt_real",
      "gt_real", "lteq_real", "gteq_real", "real_power", "print_real", "prerr_real",
      "undefined_real" }

\* C19: every real-number primop is in the variadic table, and a call of it
\* has returned Err(Unimplemented) and has changed neither the solver nor
\* the frame, whatever its arguments.
C19_RealPrimopsUnimplemented ==
    \A name \in RealPrimopNames :
        /\ name \in DOMAIN variadic_primops
        /\ (cpc = "done" /\ call.fn = name) =>
              /\ ret = [tag |-> "Err", err |-> ErrUnimplemented]
              /\ solver = InitialSolver(call)
              /\ frame = InitialFrame

\* C19 witness: sqrt_real has been called with a symbolic argument and has
\* returned.
C19_Witness ==
    /\ cpc = "done" /\ call.fn = "sqrt_real"
    /\ \E k \in DOMAIN call.args : call.args[k].tag = "Symbolic"
    /\ ret.tag = "Err"

(***************************************************************************)
(* config.rs:85-462 ISAConfig::parse                                       *)
(***************************************************************************)
\* The entries ISAConfig::parse looks for, a value of a table being named
\* table.key.  An entry is "absent", of the "wrongtype" (a string where a
\* table is looked for, and so on), "invalid" (of the right type but
\* rejected: a name the symbol table lacks, a number that does not parse,
\* a tool that is not in $PATH) or "ok".
ToolKeys == { "assembler", "objdump", "linker" }
TableValueKeys ==
    { "mmu.page_table_base", "mmu.page_size", "mmu.s2_page_table_base", "mmu.s2_page_size",
      "threads.base", "threads.top", "threads.stride",
      "symbolic_addrs.base", "symbolic_addrs.stride" }
RegisterKeys ==
    { "registers.defaults", "registers.reset", "registers.renames", "registers.ignore" }
ConfigKeys ==
    { "pc", "ifetch", "read_exclusives", "write_exclusives", "reads", "writes", "cache_ops",
      "barriers" }
    \cup ToolKeys \cup TableValueKeys \cup RegisterKeys
EntryStatuses == { "absent", "wrongtype", "invalid", "ok" }

COk == <<>>
CErr(msg) == <<msg>>

\* config.rs:85-94
get_tool_path(config, tool) ==
    CASE config[tool] \in {"absent", "wrongtype"} -> CErr("Configuration option must be specified")
      [] config[tool] = "invalid" -> CErr("Tool not found in $PATH")
      [] OTHER -> COk

\* config.rs:98-106
get_program_counter(config) ==
    CASE config["pc"] \in {"absent", "wrongtype"} ->
            CErr("Configuration file must specify the program counter")
      [] config["pc"] = "invalid" -> CErr("Register does not exist in supplied architecture")
      [] OTHER -> COk

\* config.rs:110-118
get_ifetch_read_kind(config) ==
    CASE config["ifetch"] \in {"absent", "wrongtype"} ->
            CErr("Configuration file must specify a read_kind for instruction-fetch events")
      [] config["ifetch"] = "invalid" -> CErr("Read kind does not exist in supplied architecture")
      [] OTHER -> COk

\* config.rs:120-134
get_exclusives(config, exclusives_type) ==
    CASE config[exclusives_type] \in {"absent", "wrongtype"} ->
            CErr("Configuration file must specify some exclusives")
      [] config[exclusives_type] = "invalid" ->
            CErr("Exclusive kind does not exist in supplied architecture")
      [] OTHER -> COk

\* config.rs:176-195: the three tables are looked up before any of their
\* entries is.
get_event_sets(config) ==
    CASE config["reads"] \in {"absent", "wrongtype"} -> CErr("Config file has no [reads] table")
      [] config["writes"] \in {"absent", "wrongtype"} ->
            CErr("Config file must has no [writes] table")
      [] config["cache_ops"] \in {"absent", "wrongtype"} ->
            CErr("Config file must has no [cache_ops] table")
      [] config["reads"] = "invalid" -> CErr("Could not find read_kind in architecture")
      [] config["writes"] = "invalid" -> CErr("Could not find write_kind in architecture")
      [] config["cache_ops"] = "invalid" -> CErr("Could not find cache_op_kind in architecture")
      [] OTHER -> COk

\* config.rs:197-210 with a missing value read as zero.
get_table_value_OrZero(config, key) ==
    CASE config[key] \in {"absent", "wrongtype"} -> COk
      [] config[key] = "invalid" -> CErr("Could not parse as a 64-bit unsigned integer")
      [] OTHER -> COk

\* config.rs:197-210
get_table_value(config, key) ==
    CASE config[key] \in {"absent", "wrongtype"} -> CErr("No value found in config")
      [] config[key] = "invalid" -> CErr("Could not parse as a 64-bit unsigned integer")
      [] OTHER -> COk

\* config.rs:224-354: the four optional tables under [registers].
get_registers(config, key) ==
    CASE config[key] = "wrongtype" -> CErr("registers entry should be a table or a list")
      [] config[key] = "invalid" -> CErr("Could not find register")
      [] OTHER -> COk

\* config.rs:356-378
get_barriers(config) ==
    CASE config["barriers"] = "wrongtype" ->
            CErr("[barriers] Must define a table of barrier_kind = name pairs")
      [] config["barriers"] = "invalid" ->
            CErr("barrier_kind could not be found in the architecture")
      [] OTHER -> COk

\* config.rs:437-460: the getters in the order of the fields.
ConfigGetters(config) ==
    << get_program_counter(config),
       get_ifetch_read_kind(config),
       get_exclusives(config, "read_exclusives"),
       get_exclusives(config, "write_exclusives"),
       get_event_sets(config),
       get_tool_path(config, "assembler"),
       get_tool_path(config, "objdump"),
       get_tool_path(config, "linker"),
       get_barriers(config),
       get_table_value(config, "mmu.page_table_base"),
       get_table_value(config, "mmu.page_size"),
       get_table_value(config, "mmu.s2_page_table_base"),
       get_table_value(config, "mmu.s2_page_size"),
       get_table_value(config, "threads.base"),
       get_table_value(config, "threads.top"),
       get_table_value(config, "threads.stride"),
       get_table_value(config, "symbolic_addrs.base"),
       get_table_value(config, "symbolic_addrs.stride"),
       get_registers(config, "registers.defaults"),
       get_registers(config, "registers.reset"),
       get_registers(config, "registers.renames"),
       get_registers(config, "registers.ignore") >>

\* The configuration built when no getter fails: an entry that is absent
\* leaves its map empty.
ISAConfigOf(config) ==
    [k \in ConfigKeys |-> IF config[k] = "absent" THEN "empty" ELSE "parsed"]

\* config.rs:431-462
ISAConfig_parse(contents) ==
    IF ~contents.toml_ok
    THEN [tag |-> "Err", msg |-> "Error when parsing configuration"]
    ELSE LET gs == ConfigGetters(contents.config)
             failed == { k \in DOMAIN gs : gs[k] # COk }
         IN IF failed # {}
            THEN [tag |-> "Err",
                  msg |-> gs[CHOOSE k \in failed : \A j \in failed : k <= j][1]]
            ELSE [tag |-> "Ok", val |-> ISAConfigOf(contents.config)]

\* The number of entries of a configuration text that are not as they
\* should be.
MaxDeviations == 2

RECURSIVE KeySets(_)
KeySets(k) ==
    IF k = 0 THEN { {} }
    ELSE KeySets(k - 1) \cup { T \cup {x} : T \in KeySets(k - 1), x \in ConfigKeys }

ConfigTexts ==
    { [toml_ok |-> ok,
       config |-> [k \in ConfigKeys |-> IF k \in DOMAIN dev THEN dev[k] ELSE "ok"]] :
        ok \in BOOLEAN,
        dev \in UNION { [D -> EntryStatuses \ {"ok"}] : D \in KeySets(MaxDeviations) } }

InitConfig ==
    /\ IRIdle /\ FsInit /\ TmpIdle /\ LitmusIdle
    /\ \E c \in ConfigTexts : call = [fn |-> "ISAConfig::parse", args |-> <<c>>, path |-> <<>>]
    /\ model = <<>>
    /\ solver = [fresh |-> 0, lens |-> <<>>, defs |-> <<>>]
    /\ frame = <<>>
    /\ ret = [tag |-> "None"]
    /\ cpc = "ready"

ConfigParse ==
    /\ cpc = "ready" /\ call.fn = "ISAConfig::parse"
    /\ ret' = ISAConfig_parse(call.args[1])
    /\ cpc' = "done"
    /\ UNCHANGED <<call, model, solver, frame>>
    /\ UNCHANGED <<irVars, fsVars, tmpVars, litmusVars>>

NextConfig == ConfigParse

SpecConfig == InitConfig /\ [][NextConfig]_vars

\* The keys the configuration is said to require.
RequiredKeys ==
    { "pc", "ifetch", "read_exclusives", "write_exclusives", "reads", "writes", "cache_ops",
      "assembler", "objdump", "linker", "barriers",
      "mmu.page_table_base", "mmu.page_size", "mmu.s2_page_table_base", "mmu.s2_page_size",
      "threads.base", "threads.top", "threads.stride",
      "symbolic_addrs.base", "symbolic_addrs.stride" }

ParsedConfig == call.args[1].config

\* C20 as stated: ISAConfig::parse returns an error whenever one of the
\* required keys, [barriers] among them, is absent from the text.
C20_AbsentRequiredKeyIsError ==
    (cpc = "done" /\ call.fn = "ISAConfig::parse"
       /\ \E k \in RequiredKeys : ParsedConfig[k] = "absent") =>
        ret.tag = "Err"

\* C20 amended: ISAConfig::parse returns an error whenever one of the
\* required keys other than [barriers] is absent; when [barriers] alone is
\* absent it returns a configuration whose barrier map is empty.
C20_AbsentKeyOtherThanBarriersIsError ==
    /\ (cpc = "done" /\ call.fn = "ISAConfig::parse"
          /\ \E k \in RequiredKeys \ {"barriers"} : ParsedConfig[k] = "absent") =>
          ret.tag = "Err"
    /\ (cpc = "done" /\ call.fn = "ISAConfig::parse" /\ call.args[1].toml_ok
          /\ ParsedConfig["barriers"] = "absent"
          /\ \A k \in ConfigKeys \ {"barriers"} : ParsedConfig[k] = "ok") =>
          (ret.tag = "Ok" /\ ret.val["barriers"] = "empty")

\* C20 witness: a text in which only symbolic_addrs.stride, the last key
\* looked for, is absent has been parsed and rejected.
C20_Witness ==
    /\ cpc = "done" /\ call.fn = "ISAConfig::parse" /\ call.args[1].toml_ok
    /\ ParsedConfig["symbolic_addrs.stride"] = "absent"
    /\ \A k \in ConfigKeys \ {"symbolic_addrs.stride"} : ParsedConfig[k] = "ok"
    /\ ret.tag = "Err"

(***************************************************************************)
(* Specification of the symbol table: intern, intern_exp and intern_def    *)
(* called in any order on a table made by Symtab::new                      *)
(***************************************************************************)
\* Number of strings, besides the preseeded ones, that the IR mentions.
MaxNames == 3

NamePool == <<"zfoo", "zA", "zB", "zbar", "zC">>

SymStrings == { "return", "zsail_assert" } \cup { NamePool[i] : i \in 1..MaxNames }

\* Expressions of the IR as the parser hands them over (A = String).
SrcExps ==
    { ExpId("zfoo"), ExpRef("zbar"), ExpUnit,
      ExpKind("zA", ExpId("zfoo")),
      ExpUnwrap("zA", ExpId("zfoo")),
      ExpUnwrap("zB", ExpKind("zA", ExpUnit)),
      ExpField(ExpId("zfoo"), "zB"),
      ExpStruct("zfoo", << <<"zA", ExpUnit>>, <<"zB", ExpId("return")>> >>),
      ExpCall("Eq", <<ExpId("zfoo"), ExpUnwrap("zA", ExpId("zB"))>>) }

SrcBlocks ==
    { << InstrDecl("zB", TyLint),
         InstrCopy(LocId("zB"), ExpUnwrap("zA", ExpId("zA"))),
         InstrCall(LocField(LocId("zB"), "zA"), FALSE, "zfoo", <<ExpId("zA")>>),
         InstrEnd >>,
      << InstrInit("zB", TyBool, ExpId("zA")),
         InstrJump(ExpId("zB"), 3),
         InstrCopy(LocAddr(LocId("return")), ExpKind("zA", ExpId("zB"))),
         InstrGoto(1) >>,
      << InstrPrimop(LocId("zA"), "zfoo", <<>>) >> }

\* Definitions of the IR as the parser hands them over (A = String).
SrcDefs ==
    { DefUnion("zfoo", << <<"zA", TyLint>>, <<"zB", TyBool>> >>),
      DefStruct("zfoo", << <<"zA", TyLint>>, <<"zB", TyBool>> >>),
      DefUnion("zA", << <<"zB", TyVector(TyUnion("zfoo"))>> >>),
      DefEnum("zfoo", <<"zA", "zB">>),
      DefRegister("zB", TyEnum("zfoo")),
      DefRegister("zfoo", TyStruct("zfoo")),
      DefVal("zfoo", <<TyLint, TyUnion("zA")>>, TyUnit) }
    \cup { DefFn("zfoo", <<"zA">>, b) : b \in SrcBlocks }
    \cup { DefLet(<< <<"zA", TyLint>> >>, b) : b \in SrcBlocks }

InitSymtab ==
    /\ defs0 = <<>>
    /\ defs = <<>>
    /\ primops = {}
    /\ functions = [x \in {} |-> 0]
    /\ ipc = "start"
    /\ symtab = Symtab_new
    /\ FsInit /\ TmpIdle /\ LitmusIdle
    /\ call = [fn |-> "none", args |-> <<>>]
    /\ model = <<>>
    /\ solver = [fresh |-> 0, lens |-> <<>>, defs |-> <<>>]
    /\ frame = <<>>
    /\ ret = [tag |-> "None"]
    /\ cpc = "ready"

SymtabOthersUnchanged ==
    UNCHANGED <<defs0, defs, primops, functions, ipc, model, solver, frame,
                fsVars, tmpVars, litmusVars>>

\* A call of one of the interning functions ended with `r`.
SymtabReturns(fn, arg, r) ==
    /\ call' = [fn |-> fn, args |-> <<arg>>]
    /\ IF r.panic
       THEN ret' = [tag |-> "Panic"] /\ cpc' = "panic" /\ UNCHANGED symtab
       ELSE ret' = [tag |-> "Ok", val |-> r.val] /\ cpc' = "ready" /\ symtab' = r.symtab
    /\ SymtabOthersUnchanged

Intern ==
    /\ cpc = "ready"
    /\ \E sym \in SymStrings :
        LET r == intern(symtab, sym)
        IN SymtabReturns("intern", sym, Interned(r.symtab, r.n))

InternExp ==
    /\ cpc = "ready"
    /\ \E exp \in SrcExps : SymtabReturns("intern_exp", exp, intern_exp(symtab, exp))

InternDef ==
    /\ cpc = "ready"
    /\ \E def \in SrcDefs : SymtabReturns("intern_def", def, intern_def(symtab, def))

NextSymtab == Intern \/ InternExp \/ InternDef

SpecSymtab == InitSymtab /\ [][NextSymtab]_vars

(***************************************************************************)
(* Claims about the symbol table                                           *)
(***************************************************************************)
\* Every node of the interned expression has the constructor of the node of
\* the source expression at the same place.
RECURSIVE SameConstructors(_, _)
SameConstructors(src, out) ==
    /\ src.tag = out.tag
    /\ CASE src.tag \in {"Kind", "Unwrap", "Field"} -> SameConstructors(src.exp, out.exp)
         [] src.tag = "Call" ->
                /\ Len(src.args) = Len(out.args)
                /\ \A k \in DOMAIN src.args : SameConstructors(src.args[k], out.args[k])
         [] src.tag = "Struct" ->
                /\ Len(src.fields) = Len(out.fields)
                /\ \A k \in DOMAIN src.fields :
                        SameConstructors(src.fields[k][2], out.fields[k][2])
         [] OTHER -> TRUE

\* C21: interning keeps the constructor of every node: intern_def gives a
\* definition of the same kind as the one it was given (a Union stays a
\* Union), and intern_exp gives an expression with the same constructor at
\* every node (an Unwrap stays an Unwrap).
C21_InterningKeepsConstructors ==
    /\ (call.fn = "intern_def" /\ ret.tag = "Ok") => ret.val.tag = call.args[1].tag
    /\ (call.fn = "intern_exp" /\ ret.tag = "Ok") => SameConstructors(call.args[1], ret.val)

\* The names the table has handed out.
NamesOf(st) == { st.table[x] : x \in DOMAIN st.table }

\* The table is a bijection between the stored strings and 0..next-1, with
\* to_str its inverse, and the preseeded strings hold the first numbers.
SymtabConsistent ==
    /\ symtab.next = Len(symtab.symbols)
    /\ DOMAIN symtab.table = { symtab.symbols[i] : i \in 1..Len(symtab.symbols) }
    /\ NamesOf(symtab) = 0..(symtab.next - 1)
    /\ \A x, y \in DOMAIN symtab.table :
            (symtab.table[x] = symtab.table[y]) <=> (x = y)
    /\ \A x \in DOMAIN symtab.table :
            /\ ~to_str_panics(symtab, symtab.table[x])
            /\ to_str(symtab, symtab.table[x]) = x
    /\ \A i \in 1..Len(Preseeded) : lookup(symtab, Preseeded[i]) = i - 1
    /\ lookup(symtab, "return") = RETURN

\* intern hands back the name the table holds for its string.
InternAnswersFromTable ==
    (call.fn = "intern" /\ ret.tag = "Ok") =>
        /\ ret.val = lookup(symtab, call.args[1])
        /\ to_str(symtab, ret.val) = call.args[1]

\* No step changes the name of a string that has one.
NamesAreStable ==
    \A x \in DOMAIN symtab.table :
        /\ x \in DOMAIN symtab'.table
        /\ symtab'.table[x] = symtab.table[x]

\* C30: after any sequence of interning calls on a table made by Symtab::new,
\* equal strings have equal names and different strings different names,
\* to_str(intern(s)) = s, the names handed out are exactly 0..next-1 with
\* next the number of stored symbols, a name once given never changes, and
\* the preseeded strings keep their numbers (`return` is 0).
C30_InternIsStableAndInjective ==
    /\ [](SymtabConsistent /\ InternAnswersFromTable)
    /\ [][NamesAreStable]_vars

\* C30 witness: every string of the IR has been interned, and a later call of
\* intern was given a string that already had a name and handed that name
\* back.
C30_Witness ==
    /\ symtab.next = Len(Preseeded) + MaxNames
    /\ call.fn = "intern"
    /\ ret.tag = "Ok"
    /\ call.args[1] \notin { Preseeded[i] : i \in 1..Len(Preseeded) }
    /\ ret.val < symtab.next - 1

(***************************************************************************)
(* Specification of insert_primops run twice on the same array             *)
(***************************************************************************)
\* ast.rs:315-349 called on the array a first call has processed.
InsertPrimopsAgain ==
    /\ ipc = "inserted"
    /\ LET P == CollectPrimops(defs, 1, {})
       IN /\ primops' = P
          /\ defs' = [i \in DOMAIN defs |-> RewriteDef(defs[i], P)]
    /\ ipc' = "reinserted"
    /\ UNCHANGED <<defs0, functions, symtab, fsVars, tmpVars, litmusVars, primVars>>

NextReinsert == InsertPrimops \/ InsertPrimopsAgain

SpecReinsert == InitIR /\ [][NextReinsert]_vars

\* C22: insert_primops is idempotent: the second run changes no instruction
\* of the definitions the first run processed and returns the primop set the
\* first run returned.
C22_InsertPrimopsIdempotent ==
    [][(ipc = "inserted" /\ ipc' = "reinserted") =>
            (defs' = defs /\ primops' = primops)]_vars

\* C22 witness: the second run has ended on definitions in which the first
\* run turned a Call into a Primop and left another Call in place.
C22_Witness ==
    /\ ipc = "reinserted"
    /\ primops # {}
    /\ \E i \in DOMAIN defs : \E k \in DOMAIN BlockOf(defs[i]) :
            BlockOf(defs[i])[k].tag = "Primop"
    /\ \E i \in DOMAIN defs : \E k \in DOMAIN BlockOf(defs[i]) :
            BlockOf(defs[i])[k].tag = "Call"

(***************************************************************************)
(* primop.rs:919-1081 the shift primops                                    *)
(***************************************************************************)
\* B::shiftl(n), B::arith_shiftr(n) for n >= 0: shifts that keep the width.
B_shiftl(bv, n) == [i \in DOMAIN bv |-> i - n >= 1 /\ bv[i - n]]
B_arith_shiftr(bv, n) ==
    [i \in DOMAIN bv |-> IF i + n <= Len(bv) THEN bv[i + n] ELSE bv[Len(bv)]]

B_shift(smt_op, bv, n) ==
    CASE smt_op = "Bvlshr" -> B_shiftr(bv, n)
      [] smt_op = "Bvashr" -> B_arith_shiftr(bv, n)
      [] smt_op = "Bvshl" -> B_shiftl(bv, n)

\* primop.rs:923-929 (and 933-939, 959-965, 969-975, 999-1005, 1009-1015): an
\* integer shift amount made as wide as the bit-vector it shifts.
IntShiftAmount(length, e) ==
    IF length < 128 THEN EExtract(length - 1, 0, e)
    ELSE IF length > 128 THEN EZeroExtend(length - 128, e)
    ELSE e

\* The body shiftr, arith_shiftr and shiftl share; they differ in the SMT
\* operation and in the concrete shift.
int_shift(smt_op, bits, shift, s) ==
    CASE bits.tag = "Symbolic" /\ shift.tag = "Symbolic" ->
            IF solver_length(s, bits.sym) = <<>> THEN PErr(ErrType, s)
            ELSE PDefine(s, EOp(smt_op,
                    <<EVar(bits.sym),
                      IntShiftAmount(solver_length(s, bits.sym)[1], EVar(shift.sym))>>))
      [] bits.tag = "Symbolic" /\ shift.tag = "I128" /\ shift.i = 0 -> POk(bits, s)
      [] bits.tag = "Symbolic" /\ shift.tag = "I128" ->
            IF solver_length(s, bits.sym) = <<>> THEN PErr(ErrType, s)
            ELSE PDefine(s, EOp(smt_op,
                    <<EVar(bits.sym),
                      IntShiftAmount(solver_length(s, bits.sym)[1], smt_i128(shift.i))>>))
      [] bits.tag = "Bits" /\ shift.tag = "Symbolic" ->
            PDefine(s, EOp(smt_op,
                <<smt_sbits(bits.bv), EExtract(Len(bits.bv) - 1, 0, EVar(shift.sym))>>))
      [] bits.tag = "Bits" /\ shift.tag = "I128" -> POk(VBits(B_shift(smt_op, bits.bv, shift.i)), s)
      [] OTHER -> PErr(ErrType, s)

\* primop.rs:919-957
shiftr(bits, shift, s) == int_shift("Bvlshr", bits, shift, s)
\* primop.rs:959-997
arith_shiftr(bits, shift, s) == int_shift("Bvashr", bits, shift, s)
\* primop.rs:999-1037
shiftl(bits, len, s) == int_shift("Bvshl", bits, len, s)

\* The body shift_bits_right and shift_bits_left share.  Lines 1040-1041 and
\* 1062-1063: both lengths are taken from `bits`.
bits_shift(smt_op, bits, shift, s) ==
    IF length_bits(bits, s) = <<>> THEN PErr(ErrType, s)
    ELSE LET bits_len == length_bits(bits, s)[1]
             shift_len == length_bits(bits, s)[1]
         IN CASE \/ bits.tag = "Symbolic" /\ shift.tag = "Symbolic"
                 \/ bits.tag = "Bits" /\ shift.tag = "Symbolic"
                 \/ bits.tag = "Symbolic" /\ shift.tag = "Bits" ->
                    LET amount ==
                            IF bits_len < shift_len
                            THEN EExtract(bits_len - 1, 0, smt_value(shift)[1])
                            ELSE IF bits_len > shift_len
                            THEN EZeroExtend(bits_len - shift_len, smt_value(shift)[1])
                            ELSE smt_value(shift)[1]
                    IN PDefine(s, EOp(smt_op, <<smt_value(bits)[1], amount>>))
              [] bits.tag = "Bits" /\ shift.tag = "Bits" ->
                    POk(VBits(B_shift(smt_op, bits.bv, ToNat(shift.bv))), s)
              [] OTHER -> PErr(ErrType, s)

\* primop.rs:1039-1059
shift_bits_right(bits, shift, s) == bits_shift("Bvlshr", bits, shift, s)
\* primop.rs:1061-1081
shift_bits_left(bits, shift, s) == bits_shift("Bvshl", bits, shift, s)

\* primop.rs:1337-1382.  The offset is a 64-bit integer; set_slice! treats
\* it as it treats the 128-bit offset of set_slice_internal.
op_set_slice(bits, n, update, s) ==
    IF length_bits(bits, s) = <<>> \/ length_bits(update, s) = <<>> THEN PErr(ErrType, s)
    ELSE LET bits_length == length_bits(bits, s)[1]
             update_length == length_bits(update, s)[1]
         IN CASE bits.tag = "Bits" /\ n.tag = "I64" /\ update.tag = "Bits" ->
                    POk(VBits(B_set_slice(bits.bv, AsU32(n.i), update.bv)), s)
              [] n.tag = "Symbolic" ->
                    set_slice_macro(bits_length, update_length, SetSliceExp(bits), EVar(n.sym),
                                    SetSliceExp(update), s)
              [] n.tag = "I64" /\ n.i = 0 ->
                    set_slice_n0(bits_length, update_length, SetSliceExp(bits),
                                 SetSliceExp(update), s)
              [] n.tag = "I64" ->
                    set_slice_macro(bits_length, update_length, SetSliceExp(bits), smt_i64(n.i),
                                    SetSliceExp(update), s)
              [] OTHER -> PErr(ErrType, s)

(***************************************************************************)
(* Specification of one call of a shift primop or of op_set_slice          *)
(***************************************************************************)
\* The widest concrete bit-vector, and the largest concrete shift amount.
MaxShiftWidth == 3

\* Widths of a symbolic bit-vector: small ones, and the widths around the
\* width of an integer.
SymShiftWidths == (1..MaxShiftWidth) \cup {64, 127, 128, 129}

IntShiftNames == {"shiftr", "arith_shiftr", "shiftl"}
BitsShiftNames == {"shift_bits_right", "shift_bits_left"}

ConcreteShiftBits == { VBits(b) : b \in UNION { BitVectors(w) : w \in 1..MaxShiftWidth } }

\* fn(v0, v1) with v0 a bit-vector and v1 an integer: a symbolic integer is
\* 128 bits wide.
IntShiftCalls ==
    { [fn |-> fn, args |-> <<x, y>>, lens |-> <<<<w>>, <<128>>>>] :
        fn \in IntShiftNames,
        x \in {VSymbolic(0)} \cup ConcreteShiftBits \cup {VBool(TRUE)},
        y \in {VSymbolic(1)} \cup { VI128(k) : k \in 0..MaxShiftWidth },
        w \in SymShiftWidths }

\* fn(v0, v1) with v0 and v1 bit-vectors, each of a width of its own.
BitsShiftCalls ==
    { [fn |-> fn, args |-> <<x, y>>, lens |-> <<<<w>>, <<v>>>>] :
        fn \in BitsShiftNames,
        x \in {VSymbolic(0)} \cup ConcreteShiftBits,
        y \in {VSymbolic(1)} \cup ConcreteShiftBits \cup {VI128(1)},
        w \in 1..MaxShiftWidth, v \in 1..MaxShiftWidth }

\* op_set_slice(v0, v1, v2) with v1 a 64-bit integer and v2 no wider than v0.
OpSetSliceCalls ==
    { [fn |-> "op_set_slice", args |-> <<x, n, u>>, lens |-> <<<<w>>, <<64>>, <<1>>>>] :
        x \in {VSymbolic(0)} \cup { VBits(b) : b \in BitVectors(MaxShiftWidth) },
        n \in {VSymbolic(1)} \cup { VI64(k) : k \in 0..(MaxShiftWidth - 1) },
        u \in {VSymbolic(2), VBits(<<TRUE>>)},
        w \in SymShiftWidths }

ShiftCalls == IntShiftCalls \cup BitsShiftCalls \cup OpSetSliceCalls

InitShift ==
    /\ IRIdle /\ FsInit /\ TmpIdle /\ LitmusIdle
    /\ call \in ShiftCalls
    /\ model = <<>>
    /\ solver = SolverWith(call.lens)
    /\ frame = InitialFrame
    /\ ret = [tag |-> "None"]
    /\ cpc = "ready"

CallIntShift ==
    /\ cpc = "ready" /\ call.fn \in IntShiftNames
    /\ PrimopReturns(CASE call.fn = "shiftr" -> shiftr(call.args[1], call.args[2], solver)
                       [] call.fn = "arith_shiftr" -> arith_shiftr(call.args[1], call.args[2], solver)
                       [] call.fn = "shiftl" -> shiftl(call.args[1], call.args[2], solver))

CallBitsShift ==
    /\ cpc = "ready" /\ call.fn \in BitsShiftNames
    /\ PrimopReturns(CASE call.fn = "shift_bits_right" ->
                            shift_bits_right(call.args[1], call.args[2], solver)
                       [] call.fn = "shift_bits_left" ->
                            shift_bits_left(call.args[1], call.args[2], solver))

CallOpSetSlice ==
    /\ cpc = "ready" /\ call.fn = "op_set_slice"
    /\ PrimopReturns(op_set_slice(call.args[1], call.args[2], call.args[3], solver))

NextShift == CallIntShift \/ CallBitsShift \/ CallOpSetSlice

SpecShift == InitShift /\ [][NextShift]_vars

ShiftOps == {"Bvshl", "Bvlshr", "Bvashr"}

\* In every shift term inside e the two operands have the same known width.
RECURSIVE ShiftsWellSized(_, _)
ShiftsWellSized(e, lens) ==
    CASE e.tag \in {"Var", "Bits", "Bits64", "Bool"} -> TRUE
      [] e.tag \in {"Extract", "ZeroExtend"} -> ShiftsWellSized(e.arg, lens)
      [] OTHER ->
            /\ e.tag \in ShiftOps =>
                    /\ ExpLength(e.args[1], lens) # <<>>
                    /\ ExpLength(e.args[1], lens) = ExpLength(e.args[2], lens)
            /\ \A k \in DOMAIN e.args : ShiftsWellSized(e.args[k], lens)

\* C23: whenever shiftl, shiftr, arith_shiftr, shift_bits_left,
\* shift_bits_right or op_set_slice builds a shift term (bvshl, bvlshr,
\* bvashr), the shift amount of the term has the bit-width of the shifted
\* bit-vector.
C23_ShiftAmountHasWidthOfShifted ==
    cpc = "done" =>
        \A k \in DOMAIN solver.defs :
            solver.defs[k].tag = "DefineConst" =>
                ShiftsWellSized(solver.defs[k].exp, solver.lens)

(***************************************************************************)
(* primop.rs:1555-1581 eq_anything on two structs                          *)
(***************************************************************************)
\* primop.rs:1574-1578: the fold over vars, starting from the popped one.
RECURSIVE FoldAnd(_, _, _)
FoldAnd(e, vs, i) ==
    IF i > Len(vs) THEN e
    ELSE FoldAnd(EOp("And", <<e, EVar(vs[i])>>), vs, i + 1)

\* primop.rs:1557-1569: the loop over the fields of lhs from the i-th field
\* of `order` on, `order` being the order in which the HashMap yields them.
RECURSIVE eq_struct_loop(_, _, _, _, _, _)
eq_struct_loop(lhs, rhs, order, i, syms, s) ==
    IF i > Len(order)
    THEN IF syms = <<>> THEN POk(VBool(TRUE), s)
         ELSE PDefine(s, FoldAnd(EVar(syms[Len(syms)]), SubSeq(syms, 1, Len(syms) - 1), 1))
    ELSE IF order[i] \notin DOMAIN rhs THEN PErr(ErrType, s)
    ELSE LET r == eq_anything(lhs[order[i]], rhs[order[i]], s)
         IN CASE r.res.tag = "Err" -> r
              [] r.res.val.tag = "Bool" /\ r.res.val.b ->
                    eq_struct_loop(lhs, rhs, order, i + 1, syms, r.solver)
              [] r.res.val.tag = "Bool" -> POk(VBool(FALSE), r.solver)
              [] r.res.val.tag = "Symbolic" ->
                    eq_struct_loop(lhs, rhs, order, i + 1, Append(syms, r.res.val.sym), r.solver)
              [] OTHER -> PErr(ErrType, r.solver)

\* primop.rs:1555-1581: the arm (Val::Struct(lhs), Val::Struct(rhs)).
eq_struct(lhs, rhs, order, s) == eq_struct_loop(lhs.fields, rhs.fields, order, 1, <<>>, s)

(***************************************************************************)
(* Specification of one call of eq_anything on two structs                 *)
(***************************************************************************)
\* Number of field names a struct can have.
MaxFields == 2

FieldNames == 1..MaxFields

\* The values of the symbols v0 and v1, one bit wide.
BitValues == { VBits(<<FALSE>>), VBits(<<TRUE>>) }

\* Field values: concrete bits, the symbols v0 and v1, and a Boolean.
FieldValues == BitValues \cup { VSymbolic(0), VSymbolic(1), VBool(TRUE) }

Structs == { VStruct(f) : f \in UNION { [D -> FieldValues] : D \in SUBSET FieldNames } }

\* The orders in which a HashMap with the keys D can yield them.
Orders(D) ==
    { o \in [1..Cardinality(D) -> D] : \A i, j \in DOMAIN o : i # j => o[i] # o[j] }

InitEqStruct ==
    /\ IRIdle /\ FsInit /\ TmpIdle /\ LitmusIdle
    /\ \E x \in Structs, y \in Structs :
            call = [fn |-> "eq_anything", args |-> <<x, y>>, path |-> <<>>]
    /\ model \in [0..1 -> BitValues]
    /\ solver = SolverWith(<<<<1>>, <<1>>>>)
    /\ frame = InitialFrame
    /\ ret = [tag |-> "None"]
    /\ cpc = "ready"

CallEqStruct ==
    /\ cpc = "ready" /\ call.fn = "eq_anything"
    /\ \E order \in Orders(DOMAIN call.args[1].fields) :
            PrimopReturns(eq_struct(call.args[1], call.args[2], order, solver))

NextEqStruct == CallEqStruct

SpecEqStruct == InitEqStruct /\ [][NextEqStruct]_vars

\* The value field k of struct x stands for under `model`.
FieldUnder(x, k) == IF x.fields[k].tag = "Symbolic" THEN model[x.fields[k].sym] ELSE x.fields[k]

FieldConcrete(x, k) == x.fields[k].tag # "Symbolic"

\* The two operands are structs over the same field names whose fields are
\* pairwise of one type.
SameFieldNames ==
    /\ DOMAIN call.args[1].fields = DOMAIN call.args[2].fields
    /\ \A k \in DOMAIN call.args[1].fields :
            FieldUnder(call.args[1], k).tag = FieldUnder(call.args[2], k).tag

\* The result for two structs over the same field names.
StructEqResult ==
    LET x == call.args[1]
        y == call.args[2]
        D == DOMAIN x.fields
    IN IF \E k \in D : FieldConcrete(x, k) /\ FieldConcrete(y, k) /\ x.fields[k] # y.fields[k]
       THEN ret = [tag |-> "Ok", val |-> VBool(FALSE)]
       ELSE IF \A k \in D : FieldConcrete(x, k) /\ FieldConcrete(y, k)
       THEN ret = [tag |-> "Ok", val |-> VBool(TRUE)]
       ELSE /\ ret.tag = "Ok"
            /\ ret.val.tag = "Symbolic"
            /\ ValueUnder(ret.val) =
                    VBool(\A k \in D : FieldUnder(x, k) = FieldUnder(y, k))

\* C24 (first part): on two structs with the same field names eq_anything
\* returns Bool(false) if some field is concretely unequal, Bool(true) if
\* every field is concretely equal, and otherwise a symbolic Boolean that is
\* the conjunction of the symbolic field equalities.
C24_SameFieldsCompared ==
    (cpc = "done" /\ SameFieldNames) => StructEqResult

\* C24: the first part, and structs whose sets of field names differ give a
\* Type error whichever of the two is passed first.
C24_StructEquality ==
    /\ C24_SameFieldsCompared
    /\ (cpc = "done" /\ DOMAIN call.args[1].fields # DOMAIN call.args[2].fields) =>
            (ret.tag = "Err" /\ ret.err = ErrType)

(***************************************************************************)
(* primop.rs:393-402 the integer arithmetic primops                        *)
(***************************************************************************)
\* i128::wrapping_rem for operands within TLC's integers: the remainder of
\* the division that truncates towards zero.
WrappingRem(a, b) == a - b * WrappingDiv(a, b)

ConcSubInt(x, y) == VI128(x.i - y.i)
ConcNegInt(x) == VI128(-x.i)
ConcTdivInt(x, y) == VI128(WrappingDiv(x.i, y.i))
ConcTmodInt(x, y) == VI128(WrappingRem(x.i, y.i))

\* primop.rs:393
sub_int(x, y, s) == binary_primop(x, y, "I128", ConcSubInt, "Bvsub", ToSymI128, s)
\* primop.rs:395
neg_int(x, s) == unary_primop_copy(x, "I128", ConcNegInt, "Bvneg", s)
\* primop.rs:396; the concrete division panics when the divisor is zero.
tdiv_int(x, y, s) ==
    IF x.tag = "I128" /\ y.tag = "I128" /\ y.i = 0 THEN PPanic(s)
    ELSE binary_primop(x, y, "I128", ConcTdivInt, "Bvsdiv", ToSymI128, s)
\* primop.rs:397; the concrete remainder panics when the divisor is zero.
tmod_int(x, y, s) ==
    IF x.tag = "I128" /\ y.tag = "I128" /\ y.i = 0 THEN PPanic(s)
    ELSE binary_primop(x, y, "I128", ConcTmodInt, "Bvsmod", ToSymI128, s)

(***************************************************************************)
(* Specification of one call of an integer arithmetic primop under an      *)
(* assignment                                                              *)
(***************************************************************************)
\* The integer operands are -MaxInt .. MaxInt.
MaxInt == 4

IntOperands == (-MaxInt)..MaxInt

IntArithNames == {"sub_int", "mult_int", "neg_int", "tdiv_int", "tmod_int", "udiv_int"}

\* The integers v0 and v1 stand for, and which of the operands are symbolic.
IntArithCases ==
    { [fn |-> fn, a |-> a, b |-> b, syms |-> y] :
        fn \in IntArithNames, a \in IntOperands, b \in IntOperands \ {0},
        y \in (SUBSET {0, 1}) \ {{}} }

IntOperand(c, k) ==
    IF k \in c.syms THEN VSymbolic(k) ELSE VI128(IF k = 0 THEN c.a ELSE c.b)

InitIntArith ==
    /\ IRIdle /\ FsInit /\ TmpIdle /\ LitmusIdle
    /\ \E c \in IntArithCases :
          /\ call = [fn |-> c.fn,
                     args |-> IF c.fn = "neg_int" THEN <<IntOperand(c, 0)>>
                              ELSE <<IntOperand(c, 0), IntOperand(c, 1)>>,
                     path |-> <<>>]
          /\ model = [k \in 0..1 |-> VBits(FromInt(IF k = 0 THEN c.a ELSE c.b, 128))]
          /\ c.fn = "neg_int" => (c.b = 1 /\ c.syms = {0})
    /\ solver = SolverWith(<<<<128>>, <<128>>>>)
    /\ frame = InitialFrame
    /\ ret = [tag |-> "None"]
    /\ cpc = "ready"

CallIntArith ==
    /\ cpc = "ready" /\ call.fn \in IntArithNames
    /\ PrimopReturns(
        CASE call.fn = "sub_int" -> sub_int(call.args[1], call.args[2], solver)
          [] call.fn = "mult_int" -> mult_int(call.args[1], call.args[2], solver)
          [] call.fn = "neg_int" -> neg_int(call.args[1], solver)
          [] call.fn = "tdiv_int" -> tdiv_int(call.args[1], call.args[2], solver)
          [] call.fn = "tmod_int" -> tmod_int(call.args[1], call.args[2], solver)
          [] call.fn = "udiv_int" -> udiv_int(call.args[1], call.args[2], solver))

NextIntArith == CallIntArith

SpecIntArith == InitIntArith /\ [][NextIntArith]_vars

\* What the primop computes when every operand is concrete, the operands
\* being the integers the assignment gives.
ConcreteInt(fn, a, b) ==
    CASE fn = "sub_int" -> ConcSubInt(a, b)
      [] fn = "mult_int" -> ConcMultInt(a, b)
      [] fn = "neg_int" -> ConcNegInt(a)
      [] fn = "tdiv_int" -> ConcTdivInt(a, b)
      [] fn = "tmod_int" -> ConcTmodInt(a, b)
      [] fn = "udiv_int" -> ConcUdivInt(a, b)

\* The 128 bits of an integer value, concrete or the value of a term.
IntBits(v) == IF v.tag = "I128" THEN FromInt(v.i, 128) ELSE v.bv

\* The term the call defined has, under the assignment, the value the
\* concrete operation gives for the assigned operands.
TermRefinesConcrete ==
    /\ ret.tag = "Ok"
    /\ IntBits(ValueUnder(ret.val)) # NotComputed =>
            IntBits(ValueUnder(ret.val)) =
                IntBits(ConcreteInt(call.fn, VI128(ToInt(model[0].bv)), VI128(ToInt(model[1].bv))))

\* C25: for sub_int, mult_int, neg_int, tdiv_int, tmod_int and udiv_int and
\* all integer operands with a non-zero divisor, the value of the SMT term
\* the symbolic path builds equals the result of the concrete path for the
\* same operand values.
C25_IntTermsRefineConcrete ==
    cpc = "done" => TermRefinesConcrete

(***************************************************************************)
(* primop.rs:286-299 op_neq and 1588-1611 neq_anything                     *)
(***************************************************************************)
\* primop.rs:1588-1611
neq_anything(lhs, rhs, s) ==
    CASE lhs.tag = "Symbolic" /\ rhs.tag = "Symbolic" ->
            PDefine(s, EOp("Neq", <<EVar(lhs.sym), EVar(rhs.sym)>>))
      [] lhs.tag = "Bits" /\ rhs.tag = "Symbolic" ->
            PDefine(s, EOp("Neq", <<smt_sbits(lhs.bv), EVar(rhs.sym)>>))
      [] lhs.tag = "Symbolic" /\ rhs.tag = "Bits" ->
            PDefine(s, EOp("Neq", <<EVar(lhs.sym), smt_sbits(rhs.bv)>>))
      [] lhs.tag = "Bits" /\ rhs.tag = "Bits" -> POk(VBool(lhs.bv # rhs.bv), s)
      [] lhs.tag = "Symbolic" /\ rhs.tag = "Enum" ->
            PDefine(s, EOp("Neq", <<EVar(lhs.sym), EEnum(rhs.member)>>))
      [] lhs.tag = "Enum" /\ rhs.tag = "Symbolic" ->
            PDefine(s, EOp("Neq", <<EEnum(lhs.member), EVar(rhs.sym)>>))
      [] lhs.tag = "Enum" /\ rhs.tag = "Enum" -> POk(VBool(lhs.member # rhs.member), s)
      [] OTHER -> PErr(ErrType, s)

\* primop.rs:286-299
op_neq(x, y, s) ==
    IF x.tag = "List" /\ y.tag = "List"
    THEN IF Len(x.elems) # Len(y.elems) THEN POk(VBool(TRUE), s)
         ELSE IF Len(x.elems) = 0 /\ Len(y.elems) = 0 THEN POk(VBool(FALSE), s)
         ELSE PErr(ErrType, s)
    ELSE neq_anything(x, y, s)

(***************************************************************************)
(* Specification of one call of op_eq or op_neq                            *)
(***************************************************************************)
\* Operands of every kind op_eq and op_neq tell apart; v0 and v1 are
\* bit-vectors one bit wide.
EqOperands ==
    { VBits(<<FALSE>>), VBits(<<TRUE>>), VBool(FALSE), VBool(TRUE), VI128(0), VI128(1),
      VI64(1), VEnum(0), VEnum(1), VSymbolic(0), VSymbolic(1), VUnit, VString("s"),
      VList(<<>>), VList(<<VI128(1)>>), VList(<<VI128(1), VI128(2)>>) }

InitNeq ==
    /\ IRIdle /\ FsInit /\ TmpIdle /\ LitmusIdle
    /\ call \in { PCall(fn, <<x, y>>, <<>>) :
                    fn \in {"op_eq", "op_neq"}, x \in EqOperands, y \in EqOperands }
    /\ model \in [0..1 -> BitValues]
    /\ solver = SolverWith(<<<<1>>, <<1>>>>)
    /\ frame = InitialFrame
    /\ ret = [tag |-> "None"]
    /\ cpc = "ready"

CallOpNeq ==
    /\ cpc = "ready" /\ call.fn = "op_neq"
    /\ PrimopReturns(op_neq(call.args[1], call.args[2], solver))

NextNeq == CallOpEq \/ CallOpNeq

SpecNeq == InitNeq /\ [][NextNeq]_vars

\* What op_eq returns for the operands of the call, from the solver the
\* call started with.
OpEqOfCall == op_eq(call.args[1], call.args[2], SolverWith(<<<<1>>, <<1>>>>)).res

\* C26: op_neq is the negation of op_eq: on every pair on which op_eq
\* returns a concrete Boolean b, op_neq returns Bool(not b), and op_neq is a
\* Type error on exactly the pairs on which op_eq is one.
C26_NeqNegatesEq ==
    (cpc = "done" /\ call.fn = "op_neq") =>
        /\ (OpEqOfCall.tag = "Ok" /\ OpEqOfCall.val.tag = "Bool") =>
                ret = [tag |-> "Ok", val |-> VBool(~OpEqOfCall.val.b)]
        /\ (ret.tag = "Err" /\ ret.err = ErrType)
                <=> (OpEqOfCall.tag = "Err" /\ OpEqOfCall.err = ErrType)

(***************************************************************************)
(* primop.rs:1748-1754 undefined_range and 1387-1433 vector_update         *)
(***************************************************************************)
VVector(elems) == [tag |-> "Vector", elems |-> elems]

\* Solver::fresh alone: the symbol, and the solver with its counter moved on.
solver_fresh(s) == [sym |-> s.fresh, solver |-> [s EXCEPT !.fresh = @ + 1]]

\* Solver::add of a DeclareConst of a bit-vector of width len.
solver_declare(s, v, len) ==
    [s EXCEPT !.defs = Append(@, DeclareConst(v, <<len>>)),
              !.lens = (v :> <<len>>) @@ @]

\* Solver::is_bitvector
is_bitvector(s, v) == solver_length(s, v) # <<>>

\* primop.rs:1748-1754.  Each `?` leaves with what the statements before it
\* have added.
undefined_range(lo, hi, s) ==
    LET sym == solver_fresh(s).sym
        s1 == solver_declare(solver_fresh(s).solver, sym, 128)
    IN IF smt_value(lo) = <<>> THEN PErr(ErrType, s1)
       ELSE LET s2 == solver_add(s1, DefAssert(EOp("Bvsle", <<smt_value(lo)[1], EVar(sym)>>)))
            IN IF smt_value(hi) = <<>> THEN PErr(ErrType, s2)
               ELSE POk(VSymbolic(sym),
                        solver_add(s2, DefAssert(EOp("Bvsle", <<EVar(sym), smt_value(hi)[1]>>))))

\* primop.rs:1403-1417: the loop over the items of the vector from item i
\* on (item i has the index i - 1).
RECURSIVE vector_update_loop(_, _, _, _, _, _)
vector_update_loop(vec, n, update, i, acc, s) ==
    IF i > Len(vec) THEN POk(VVector(acc), s)
    ELSE LET var == solver_fresh(s).sym
             s1 == solver_fresh(s).solver
         IN IF smt_value(update) = <<>> \/ smt_value(vec[i]) = <<>> THEN PErr(ErrType, s1)
            ELSE vector_update_loop(vec, n, update, i + 1, Append(acc, VSymbolic(var)),
                    solver_add(s1, DefineConst(var,
                        EOp("Ite", <<EOp("Eq", <<EVar(n), EBits64(FromNat(i - 1, 128))>>),
                                     smt_value(update)[1],
                                     smt_value(vec[i])[1]>>))))

\* primop.rs:1387-1433; indexing the vector out of its range panics.
vector_update(args, s, f) ==
    CASE args[1].tag = "Vector" ->
            CASE args[2].tag \in {"I128", "I64"} ->
                    IF args[2].i < 0 \/ args[2].i >= Len(args[1].elems) THEN VRet(PPanic(s), f)
                    ELSE VRet(POk(VVector([args[1].elems EXCEPT ![args[2].i + 1] = args[3]]), s), f)
              [] args[2].tag = "Symbolic" ->
                    VRet(vector_update_loop(args[1].elems, args[2].sym, args[3], 1, <<>>, s), f)
              [] OTHER -> VRet(PErr(ErrType, s), f)
      [] args[1].tag = "Bits" -> VRet(set_slice_internal(args[1], args[2], args[3], s), f)
      [] args[1].tag = "Symbolic" /\ is_bitvector(s, args[1].sym) ->
            VRet(set_slice_internal(args[1], args[2], args[3], s), f)
      [] OTHER -> VRet(PErr(ErrType, s), f)

(***************************************************************************)
(* Specification of one call of undefined_range, of eq_anything on two     *)
(* structs, or of vector_update                                            *)
(***************************************************************************)
\* The longest vector vector_update is given.
MaxVecLen == 2

\* v0 is an integer, v1 a bit-vector one bit wide; Unit and String have no
\* SMT value.
RangeOperands == { VI128(0), VI128(3), VSymbolic(0), VUnit, VString("s") }
VecItems == { VBits(<<TRUE>>), VSymbolic(1), VUnit }

VectorUpdateCalls ==
    { PCall("vector_update", <<v, n, u>>, <<>>) :
        v \in { VVector(e) : e \in SeqsUpTo(VecItems, MaxVecLen) }
              \cup { VBits(<<TRUE, FALSE>>), VSymbolic(1), VUnit },
        n \in { VSymbolic(0), VI128(0), VI128(1), VI64(0), VBool(TRUE) },
        u \in { VBits(<<FALSE>>), VSymbolic(1), VUnit } }

InitErrPath ==
    \/ InitEqStruct
    \/ /\ IRIdle /\ FsInit /\ TmpIdle /\ LitmusIdle
       /\ call \in { PCall("undefined_range", <<lo, hi>>, <<>>) :
                        lo \in RangeOperands, hi \in RangeOperands }
                   \cup VectorUpdateCalls
       /\ model = <<>>
       /\ solver = SolverWith(<<<<128>>, <<1>>>>)
       /\ frame = InitialFrame
       /\ ret = [tag |-> "None"]
       /\ cpc = "ready"

CallUndefinedRange ==
    /\ cpc = "ready" /\ call.fn = "undefined_range"
    /\ PrimopReturns(undefined_range(call.args[1], call.args[2], solver))

CallVectorUpdate ==
    /\ cpc = "ready" /\ call.fn = "vector_update"
    /\ LET r == vector_update(call.args, solver, frame)
       IN PrimopReturns([res |-> r.res, solver |-> r.solver])

NextErrPath == CallUndefinedRange \/ CallEqStruct \/ CallVectorUpdate

SpecErrPath == InitErrPath /\ [][NextErrPath]_vars

\* C27: when undefined_range, eq_anything on two structs, or vector_update
\* with a symbolic index returns an error, the solver holds no declaration,
\* definition or assertion that it did not hold before the call.
C27_ErrorLeavesSolverAsItWas ==
    [][(cpc = "ready" /\ cpc' = "done" /\ ret'.tag = "Err") => solver'.defs = solver.defs]_vars

(***************************************************************************)
(* primop.rs:679-704 replicate_exp and replicate_bits                      *)
(***************************************************************************)
\* B::replicate(times): None when the copies do not fit the bit-vector type.
B_replicate(bv, times) ==
    IF times >= 0 /\ Len(bv) * times <= MAX_WIDTH
    THEN <<[i \in 1..(Len(bv) * times) |-> bv[((i - 1) % Len(bv)) + 1]]>>
    ELSE <<>>

\* primop.rs:679-687, the value it returns when it returns: for times >= 0.
RECURSIVE replicate_exp(_, _)
replicate_exp(bits, times) ==
    IF times = 0 THEN EBits64(<<>>)
    ELSE IF times = 1 THEN bits
    ELSE EOp("Concat", <<bits, replicate_exp(bits, times - 1)>>)

(***************************************************************************)
(* Specification of one call of replicate_bits, replicate_exp running one  *)
(* activation at a time                                                    *)
(***************************************************************************)
\* The largest number of copies asked for, and the number of activations
\* of replicate_exp the stack has room for: more than any call that ends
\* needs.
MaxTimes == 3
StackFrames == MaxTimes + 2

\* replicate_bits(v0, k): v0 a bit-vector of width 1 or 2, or a concrete
\* bit-vector, or no bit-vector; k an integer, or the symbol v1.
ReplicateCalls ==
    { [fn |-> "replicate_bits", args |-> <<b, t>>, lens |-> <<<<w>>, <<128>>>>] :
        b \in { VSymbolic(0), VBits(<<TRUE, FALSE>>), VBits(FromNat(5, 32)), VBool(TRUE) },
        t \in { VI128(k) : k \in (-MaxTimes)..MaxTimes } \cup { VSymbolic(1) },
        w \in 1..2 }

InitReplicate ==
    /\ IRIdle /\ FsInit /\ TmpIdle /\ LitmusIdle
    /\ call \in ReplicateCalls
    /\ call.args[1].tag = "Bits" => (call.args[2].tag = "I128" => call.args[2].i >= 0)
    /\ model \in [{0} -> { VBits(b) : b \in BitVectors(call.lens[1][1]) }]
    /\ solver = SolverWith(call.lens)
    /\ frame = InitialFrame
    /\ ret = [tag |-> "None"]
    /\ cpc = "ready"

\* The expression replicate_bits hands to replicate_exp.
ReplicateOperand ==
    IF call.args[1].tag = "Symbolic" THEN EVar(call.args[1].sym) ELSE smt_sbits(call.args[1].bv)

\* replicate_bits calls replicate_exp(bits, times): the first activation.
EnterReplicateExp(times) ==
    /\ cpc' = "replicate_exp"
    /\ frame' = [pc |-> 0, times |-> times, depth |-> 1]
    /\ UNCHANGED <<call, model, solver, ret>>
    /\ UNCHANGED <<irVars, fsVars, tmpVars, litmusVars>>

\* primop.rs:689-704 up to the call of replicate_exp.
CallReplicateBits ==
    /\ cpc = "ready" /\ call.fn = "replicate_bits"
    /\ LET bits == call.args[1]
           times == call.args[2]
       IN CASE bits.tag = "Bits" /\ times.tag = "I128" ->
                    IF B_replicate(bits.bv, times.i) # <<>>
                    THEN PrimopReturns(POk(VBits(B_replicate(bits.bv, times.i)[1]), solver))
                    ELSE EnterReplicateExp(times.i)
            [] bits.tag = "Symbolic" /\ times.tag = "I128" ->
                    IF times.i = 0 THEN PrimopReturns(POk(VBits(Zeros(0)), solver))
                    ELSE EnterReplicateExp(times.i)
            [] OTHER -> PrimopReturns(PErr(ErrType, solver))

\* primop.rs:679-687, one activation: the two base cases end the recursion,
\* and replicate_bits defines the expression that comes back (694, 700);
\* any other `times` calls replicate_exp(bits, times - 1), which needs one
\* more activation.  With no room left the stack overflows and the process
\* is aborted.
ReplicateExpStep ==
    /\ cpc = "replicate_exp"
    /\ IF frame.times = 0 \/ frame.times = 1
       THEN PrimopReturns(PDefine(solver, replicate_exp(ReplicateOperand, call.args[2].i)))
       ELSE /\ IF frame.depth < StackFrames
               THEN /\ frame' = [frame EXCEPT !.times = @ - 1, !.depth = @ + 1]
                    /\ cpc' = "replicate_exp"
               ELSE /\ cpc' = "overflow"
                    /\ UNCHANGED frame
            /\ UNCHANGED <<call, model, solver, ret>>
            /\ UNCHANGED <<irVars, fsVars, tmpVars, litmusVars>>

NextReplicate == CallReplicateBits \/ ReplicateExpStep

SpecReplicate == InitReplicate /\ [][NextReplicate]_vars

\* The call keeps running as long as it can take a step.
SpecReplicateLive == SpecReplicate /\ WF_vars(NextReplicate)

\* k copies of the bit-vector bv, one after the other.
Copies(bv, k) == [i \in 1..(Len(bv) * k) |-> bv[((i - 1) % Len(bv)) + 1]]

SymbolicReplicate == call.args[1].tag = "Symbolic" /\ call.args[2].tag = "I128"

\* C29: replicate_bits(bv, k) with a symbolic bv comes to an end for every
\* integer k; for k >= 1 it defines the concatenation of exactly k copies of
\* bv, nested to the right; for k = 0 it returns the empty concrete
\* bit-vector and leaves the solver as it was.
C29_ReplicateTerminates ==
    /\ <>(cpc = "done")
    /\ [](cpc = "done" /\ SymbolicReplicate =>
            /\ call.args[2].i >= 1 =>
                    /\ ret.tag = "Ok" /\ ret.val.tag = "Symbolic"
                    /\ solver.defs[Len(solver.defs)].exp =
                            replicate_exp(EVar(call.args[1].sym), call.args[2].i)
                    /\ ValueUnder(ret.val).bv = Copies(model[0].bv, call.args[2].i)
            /\ call.args[2].i = 0 =>
                    /\ ret = [tag |-> "Ok", val |-> VBits(<<>>)]
                    /\ solver = SolverWith(call.lens))

(***************************************************************************)
(* Claims about concurrent calls of TmpFile::new                           *)
(***************************************************************************)
\* C28: concurrent calls of TmpFile::new never panic: also when the isla
\* directory does not exist yet and several callers test for it at the same
\* time, every caller goes on to obtain its TmpFile.
C28_ConcurrentNewNeverPanics ==
    \A t \in TmpThreads : tpc[t] # "panic"
====
